---- MODULE Spec2Model ----
(***************************************************************************)
(* A model of amp-evaluation's trace reconstruction, evaluator dispatch    *)
(* (BaseEvaluator.run), runner (BaseRunner) and result records             *)
(* (EvalResult, EvaluatorScore, EvaluatorSummary).                         *)
(*                                                                         *)
(* Scores are held in tenths: the Python score 0.5 is the integer 5.       *)
(* Python's None is the string "None".                                     *)
(***************************************************************************)
EXTENDS Integers, Sequences, FiniteSets, TLC

None == "None"

(***************************************************************************)
(* Bounds of the model.                                                    *)
(***************************************************************************)
\* spans per trace handed to one dispatch
MaxSpans == 2
\* traces handed to one run of a runner
MaxTraces == 2
\* records handed to one application of the aggregator
MaxScores == 3
\* how far, in tenths, the scores tried at construction leave [0.0, 1.0]
ScoreExcess == 3
\* parameters, self apart, of a designated callable
MaxParams == 2
\* spans of a trace whose steps are reconstructed
MaxTreeSpans == 3
\* reconstruction passes over one trace
MaxPasses == 2
\* largest max_retries of an LLM judge
MaxRetries == 2
\* spans of a trace whose parent chains are walked step by step
MaxWalkSpans == 3
\* messages of the first LLM call of a trace whose messages vary
MaxMessages == 3

(***************************************************************************)
(* Span model (trace/models.py).                                           *)
(***************************************************************************)
SystemMessage(c) ==
    [role |-> "system", content |-> c, tool_call_id |-> None, tool_calls |-> <<>>]
UserMessage(c) ==
    [role |-> "user", content |-> c, tool_call_id |-> None, tool_calls |-> <<>>]
AssistantMessage(c, tcs) ==
    [role |-> "assistant", content |-> c, tool_call_id |-> None, tool_calls |-> tcs]
ToolMessage(c, id) ==
    [role |-> "tool", content |-> c, tool_call_id |-> id, tool_calls |-> <<>>]
ToolCall(id, name) == [id |-> id, name |-> name]

LLMSpan(id, parent, msgs, response, tcs) ==
    [span_id |-> id, kind |-> "llm", parent_span_id |-> parent, name |-> "",
     messages |-> msgs, response |-> response, tool_calls |-> tcs]
ToolSpan(id, parent, name) ==
    [span_id |-> id, kind |-> "tool", parent_span_id |-> parent, name |-> name,
     messages |-> <<>>, response |-> "", tool_calls |-> <<>>]
RetrieverSpan(id, parent) ==
    [span_id |-> id, kind |-> "retriever", parent_span_id |-> parent, name |-> "",
     messages |-> <<>>, response |-> "", tool_calls |-> <<>>]
AgentSpan(id, parent, name) ==
    [span_id |-> id, kind |-> "agent", parent_span_id |-> parent, name |-> name,
     messages |-> <<>>, response |-> "", tool_calls |-> <<>>]

Trace(id, spans) == [trace_id |-> id, spans |-> spans]

\* _hash_message: SHA256 of "role:content", taken as injective on the pair
_hash_message(msg) == <<msg.role, msg.content>>

(***************************************************************************)
(* Reconstructed steps (AgentStep union) and AgentTrace.                   *)
(***************************************************************************)
UserStep(c) ==
    [type |-> "user", content |-> c, tool_name |-> None, tool_call_id |-> None,
     tool_calls |-> <<>>, llm_span_id |-> None, nested_traces |-> <<>>]
LLMStep(c, tcs, id) ==
    [type |-> "llm", content |-> c, tool_name |-> None, tool_call_id |-> None,
     tool_calls |-> tcs, llm_span_id |-> id, nested_traces |-> <<>>]
ToolExecutionStep(name, id, c, nested) ==
    [type |-> "tool", content |-> c, tool_name |-> name, tool_call_id |-> id,
     tool_calls |-> <<>>, llm_span_id |-> None, nested_traces |-> nested]

AgentTrace(id, name, steps) ==
    [kind |-> "agent_trace", agent_id |-> id, agent_name |-> name, steps |-> steps]

(***************************************************************************)
(* Trace reconstructor.                                                    *)
(***************************************************************************)
\* span_by_id: the dict built from the span list (a repeated id keeps the last)
has_span(spans, id) == \E i \in 1..Len(spans) : spans[i].span_id = id

span_by_id(spans, id) ==
    spans[CHOOSE i \in 1..Len(spans) :
            /\ spans[i].span_id = id
            /\ \A j \in (i+1)..Len(spans) : spans[j].span_id # id]

tool_span_ids(spans) ==
    {spans[i].span_id : i \in {j \in 1..Len(spans) : spans[j].kind = "tool"}}

\* has_tool_ancestor looking at the direct parent only
has_tool_ancestor_parent_only(spans, current_id, visited) ==
    current_id # "None" /\ current_id \in tool_span_ids(spans)

RECURSIVE has_tool_ancestor(_, _, _)
\* the while loop of has_tool_ancestor, entered with current_id and visited
has_tool_ancestor(spans, current_id, visited) ==
    IF current_id = None \/ current_id \in visited THEN FALSE
    ELSE IF current_id \in tool_span_ids(spans) THEN TRUE
    ELSE IF ~has_span(spans, current_id) THEN FALSE
    ELSE has_tool_ancestor(spans, span_by_id(spans, current_id).parent_span_id,
                           visited \cup {current_id})

RECURSIVE DescendantLoop(_, _, _, _)
\* the for loop of _get_descendant_spans from position i on, with the shared
\* _visited set v; returns the collected spans and the set as left behind
DescendantLoop(spans, parent_id, i, v) ==
    IF i > Len(spans) THEN [d |-> <<>>, v |-> v]
    ELSE IF spans[i].parent_span_id = parent_id /\ spans[i].span_id \notin v
    THEN LET sub  == DescendantLoop(spans, spans[i].span_id, 1, v \cup {spans[i].span_id})
             rest == DescendantLoop(spans, parent_id, i + 1, sub.v)
         IN  [d |-> <<spans[i]>> \o sub.d \o rest.d, v |-> rest.v]
    ELSE DescendantLoop(spans, parent_id, i + 1, v)

_get_descendant_spans(spans, parent_id) == DescendantLoop(spans, parent_id, 1, {}).d

_get_children_of(spans, parent_id) ==
    SelectSeq(spans, LAMBDA s : s.parent_span_id = parent_id)

_get_root_level_spans(spans, agent_span_id) ==
    LET candidate_spans == IF agent_span_id # None
                           THEN _get_descendant_spans(spans, agent_span_id)
                           ELSE spans
    IN  SelectSeq(candidate_spans,
                  LAMBDA s : \/ s.parent_span_id = None
                             \/ ~has_tool_ancestor(spans, s.parent_span_id, {}))

\* tool_call_names that resolves nothing
tool_call_name_unresolved(llm_span, id) == id

\* tool_call_names of _reconstruct_llm_steps: the name declared for a
\* tool_call_id by the span's AssistantMessages (the last declaration wins),
\* or the raw id
tool_call_name(llm_span, id) ==
    LET decl == UNION {{<<i, j>> : j \in {k \in 1..Len(llm_span.messages[i].tool_calls) :
                                           llm_span.messages[i].tool_calls[k].id = id}} :
                       i \in {m \in 1..Len(llm_span.messages) :
                                llm_span.messages[m].role = "assistant"}}
        last == CHOOSE p \in decl :
                    \A q \in decl : q[1] < p[1] \/ (q[1] = p[1] /\ q[2] <= p[2])
    IN  IF decl = {} THEN id
        ELSE llm_span.messages[last[1]].tool_calls[last[2]].name

RECURSIVE MessageLoop(_, _, _, _)
\* the message loop of _reconstruct_llm_steps from message i on; seen is the
\* set of hashes seen so far, dedup says whether seen_messages is not None
MessageLoop(llm_span, i, seen, dedup) ==
    IF i > Len(llm_span.messages) THEN [steps |-> <<>>, seen |-> seen]
    ELSE LET msg == llm_span.messages[i]
             h   == _hash_message(msg)
         IN  IF dedup /\ h \in seen
             THEN MessageLoop(llm_span, i + 1, seen, dedup)
             ELSE LET rest == MessageLoop(llm_span, i + 1,
                                          IF dedup THEN seen \cup {h} ELSE seen, dedup)
                      here == IF msg.role = "user" THEN <<UserStep(msg.content)>>
                              ELSE IF msg.role = "tool"
                              THEN <<ToolExecutionStep(
                                        tool_call_name(llm_span, msg.tool_call_id),
                                        msg.tool_call_id, msg.content, <<>>)>>
                              ELSE <<>>
                  IN  [steps |-> here \o rest.steps, seen |-> rest.seen]

\* _reconstruct_llm_steps deduplicating within the span only: the set it is
\* handed is neither read nor filled
reconstruct_llm_steps_own_set(llm_span, seen, dedup) ==
    [steps |-> MessageLoop(llm_span, 1, {}, dedup).steps \o
               (IF llm_span.response # "" \/ llm_span.tool_calls # <<>>
                THEN <<LLMStep(llm_span.response, llm_span.tool_calls, llm_span.span_id)>>
                ELSE <<>>),
     seen |-> seen]

\* _reconstruct_llm_steps passing over a call all of whose messages were
\* seen before, its LLMStep included
reconstruct_llm_steps_dropping_repeated_call(llm_span, seen, dedup) ==
    [steps |-> IF /\ dedup /\ llm_span.messages # <<>>
                  /\ \A m \in 1..Len(llm_span.messages) :
                         _hash_message(llm_span.messages[m]) \in seen
               THEN <<>>
               ELSE MessageLoop(llm_span, 1, seen, dedup).steps \o
                    (IF llm_span.response # "" \/ llm_span.tool_calls # <<>>
                     THEN <<LLMStep(llm_span.response, llm_span.tool_calls,
                                    llm_span.span_id)>>
                     ELSE <<>>),
     seen |-> MessageLoop(llm_span, 1, seen, dedup).seen]

_reconstruct_llm_steps(llm_span, seen, dedup) ==
    LET m == MessageLoop(llm_span, 1, seen, dedup)
    IN  [steps |-> m.steps \o
                   (IF llm_span.response # "" \/ llm_span.tool_calls # <<>>
                    THEN <<LLMStep(llm_span.response, llm_span.tool_calls, llm_span.span_id)>>
                    ELSE <<>>),
         seen |-> m.seen]

_reconstruct_tool_step_from_retriever(retriever_span) ==
    ToolExecutionStep("retrieval", None, "", <<>>)

RECURSIVE _reconstruct_steps_from(_, _, _, _, _)
RECURSIVE _reconstruct_tool_step(_, _)
RECURSIVE create_agent_trace(_, _)

\* the span loop of _reconstruct_steps over `sel` from position i on
_reconstruct_steps_from(spans, sel, i, seen, dedup) ==
    IF i > Len(sel) THEN <<>>
    ELSE IF sel[i].kind = "llm"
    THEN LET r == _reconstruct_llm_steps(sel[i], seen, dedup)
         IN  r.steps \o _reconstruct_steps_from(spans, sel, i + 1, r.seen, dedup)
    ELSE IF sel[i].kind = "tool"
    THEN <<_reconstruct_tool_step(spans, sel[i])>>
             \o _reconstruct_steps_from(spans, sel, i + 1, seen, dedup)
    ELSE IF sel[i].kind = "retriever"
    THEN <<_reconstruct_tool_step_from_retriever(sel[i])>>
             \o _reconstruct_steps_from(spans, sel, i + 1, seen, dedup)
    ELSE _reconstruct_steps_from(spans, sel, i + 1, seen, dedup)

_reconstruct_steps(spans, sel, deduplicate_messages) ==
    _reconstruct_steps_from(spans, sel, 1, {}, deduplicate_messages)

\* the hashes in seen_messages after a deduplicating pass over sel that began
\* with the set seen
seen_after(sel, seen) ==
    seen \cup UNION {{_hash_message(sel[i].messages[m]) : m \in 1..Len(sel[i].messages)} :
                        i \in {k \in 1..Len(sel) : sel[k].kind = "llm"}}

\* one pass of _reconstruct_steps that goes on with the set an earlier pass left
reconstruct_pass_sharing_seen(spans, sel, deduplicate_messages, left_behind) ==
    [steps |-> _reconstruct_steps_from(spans, sel, 1, left_behind, deduplicate_messages),
     left |-> seen_after(sel, left_behind)]

\* one pass of _reconstruct_steps, made while the set an earlier pass filled
\* is left_behind: the pass begins with a set of its own
reconstruct_pass(spans, sel, deduplicate_messages, left_behind) ==
    [steps |-> _reconstruct_steps(spans, sel, deduplicate_messages),
     left |-> IF deduplicate_messages THEN seen_after(sel, {}) ELSE {}]

get_agent_steps(spans, agent_span_id, deduplicate_messages) ==
    _reconstruct_steps(spans, _get_root_level_spans(spans, agent_span_id),
                       deduplicate_messages)

RECURSIVE NestedLoop(_, _, _)
\* the loop of _reconstruct_tool_step over the tool's direct children
NestedLoop(spans, nested_spans, i) ==
    IF i > Len(nested_spans) THEN <<>>
    ELSE IF nested_spans[i].kind = "llm"
    THEN <<nested_spans[i]>> \o NestedLoop(spans, nested_spans, i + 1)
    ELSE IF nested_spans[i].kind = "agent"
    THEN <<create_agent_trace(spans, nested_spans[i].span_id)>>
             \o NestedLoop(spans, nested_spans, i + 1)
    ELSE NestedLoop(spans, nested_spans, i + 1)

_reconstruct_tool_step(spans, tool_span) ==
    ToolExecutionStep(tool_span.name, None, "",
                      NestedLoop(spans, _get_children_of(spans, tool_span.span_id), 1))

\* create_agent_trace for the id of an AgentSpan of the trace
create_agent_trace(spans, agent_span_id) ==
    LET agent_span == CHOOSE s \in {spans[i] : i \in 1..Len(spans)} :
                          s.kind = "agent" /\ s.span_id = agent_span_id
    IN  AgentTrace(agent_span.span_id, agent_span.name,
                   get_agent_steps(spans, agent_span_id, TRUE))

get_agents(spans) == SelectSeq(spans, LAMBDA s : s.kind = "agent")

RECURSIVE UniqueLoop(_, _, _)
\* the inner loop of _deduplicate_llm_messages from message m on
UniqueLoop(messages, m, seen_messages) ==
    IF m > Len(messages) THEN [unique_messages |-> <<>>, seen_messages |-> seen_messages]
    ELSE IF _hash_message(messages[m]) \in seen_messages
    THEN UniqueLoop(messages, m + 1, seen_messages)
    ELSE LET rest == UniqueLoop(messages, m + 1,
                                seen_messages \cup {_hash_message(messages[m])})
         IN  [unique_messages |-> <<messages[m]>> \o rest.unique_messages,
              seen_messages |-> rest.seen_messages]

RECURSIVE DeduplicateLoop(_, _, _)
\* the outer loop of _deduplicate_llm_messages from span i on: the new spans
DeduplicateLoop(llm_spans, i, seen_messages) ==
    IF i > Len(llm_spans) THEN <<>>
    ELSE LET u == UniqueLoop(llm_spans[i].messages, 1, seen_messages)
         IN  (IF \/ u.unique_messages # <<>>
                 \/ llm_spans[i].response # ""
                 \/ llm_spans[i].tool_calls # <<>>
              THEN <<[llm_spans[i] EXCEPT !.messages = u.unique_messages]>>
              ELSE <<>>)
             \o DeduplicateLoop(llm_spans, i + 1, u.seen_messages)

\* _deduplicate_llm_messages assigning unique_messages to the span it reads
deduplicate_llm_messages_in_place(llm_spans) ==
    [returned |-> DeduplicateLoop(llm_spans, 1, {}),
     llm_spans |-> [k \in 1..Len(llm_spans) |->
                      [llm_spans[k] EXCEPT !.messages =
                          IF \E j \in 1..Len(DeduplicateLoop(llm_spans, 1, {})) :
                                 DeduplicateLoop(llm_spans, 1, {})[j].span_id
                                     = llm_spans[k].span_id
                          THEN DeduplicateLoop(llm_spans, 1, {})
                                   [CHOOSE j \in 1..Len(DeduplicateLoop(llm_spans, 1, {})) :
                                        DeduplicateLoop(llm_spans, 1, {})[j].span_id
                                            = llm_spans[k].span_id].messages
                          ELSE <<>>]]]

\* _deduplicate_llm_messages: what it returns, and the spans it was handed
\* as they are when it returns (dataclasses.replace builds new spans)
_deduplicate_llm_messages(llm_spans) ==
    [returned |-> DeduplicateLoop(llm_spans, 1, {}), llm_spans |-> llm_spans]

\* the span list of the trace, as it reads once the LLMSpans handed to
\* _deduplicate_llm_messages, which are its own, are as that call left them
spans_after(spans, llm_spans) ==
    [k \in 1..Len(spans) |->
        IF \E j \in 1..Len(llm_spans) : llm_spans[j].span_id = spans[k].span_id
        THEN llm_spans[CHOOSE j \in 1..Len(llm_spans) :
                           llm_spans[j].span_id = spans[k].span_id]
        ELSE spans[k]]

\* the LLMSpans get_llm_calls starts with
llm_spans_of(spans, include_nested) ==
    IF include_nested
    THEN SelectSeq(spans, LAMBDA s : s.kind = "llm")
    ELSE SelectSeq(spans, LAMBDA s : s.kind = "llm"
                                      /\ s.parent_span_id \notin tool_span_ids(spans))

\* get_llm_calls(include_nested, agent_span_id=None, deduplicate_messages):
\* what it returns, and the span list of the trace when it returns
get_llm_calls(spans, include_nested, deduplicate_messages) ==
    IF deduplicate_messages
    THEN [returned |-> _deduplicate_llm_messages(llm_spans_of(spans, include_nested)).returned,
          spans |-> spans_after(spans,
                        _deduplicate_llm_messages(llm_spans_of(spans, include_nested)).llm_spans)]
    ELSE [returned |-> llm_spans_of(spans, include_nested), spans |-> spans]

(***************************************************************************)
(* Optional values: Nothing is Python's None where the value is a number,  *)
(* a boolean or a dict; Some(x) is the value x.                            *)
(***************************************************************************)
Nothing == <<>>
Some(x) == <<x>>

(***************************************************************************)
(* EvalResult (models.py).  An attempt to build or read one either yields  *)
(* a value or raises: exc names the exception class, None when none.       *)
(***************************************************************************)
Number(v) == [type |-> "number", value |-> v]
NotANumber == [type |-> "str", value |-> 8]

Raised(cls, text) == [exc |-> cls, text |-> text, value |-> Nothing]
Returned(v) == [exc |-> None, text |-> "", value |-> Some(v)]

\* EvalResult.__init__ without the upper half of its range check
EvalResult_init_unbounded_above(score, passed) ==
    IF score.type # "number"
    THEN [exc |-> "TypeError", text |-> "score must be a number", value |-> <<>>]
    ELSE IF ~(0 <= score.value)
    THEN [exc |-> "ValueError", text |-> "score must be between 0.0 and 1.0",
          value |-> <<>>]
    ELSE [exc |-> "None", text |-> "",
          value |-> <<[_score |-> <<score.value>>,
                       _passed |-> IF passed # <<>> THEN passed ELSE <<score.value >= 5>>,
                       explanation |-> "None", details |-> <<>>, skip_reason |-> "None"]>>]

\* EvalResult.__init__(score, passed=passed): details is Nothing (None) or
\* Some(id), a dict whose "span_id" entry is id (None when it has no such key)
EvalResult_init(score, passed) ==
    IF score.type # "number"
    THEN Raised("TypeError", "score must be a number")
    ELSE IF ~(0 <= score.value /\ score.value <= 10)
    THEN Raised("ValueError", "score must be between 0.0 and 1.0")
    ELSE Returned([_score |-> Some(score.value),
                   _passed |-> IF passed # Nothing THEN passed ELSE Some(score.value >= 5),
                   explanation |-> None,
                   details |-> Nothing,
                   skip_reason |-> None])

\* EvalResult.skip(reason)
EvalResult_skip(reason) ==
    [_score |-> Nothing, _passed |-> Nothing, explanation |-> None,
     details |-> Nothing, skip_reason |-> reason]

\* the score property without its guard: a skipped result reads as 0.0
EvalResult_score_unguarded(r) ==
    [exc |-> "None", text |-> "",
     value |-> IF r._score = <<>> THEN <<0>> ELSE r._score]

\* the score property
EvalResult_score(r) ==
    IF r._score = Nothing
    THEN Raised("AttributeError", "Cannot access score on a skipped result")
    ELSE Returned(r._score[1])

\* the passed property
EvalResult_passed(r) ==
    IF r._passed = Nothing
    THEN Raised("AttributeError", "Cannot access passed on a skipped result")
    ELSE Returned(r._passed[1])

\* reading the plain dataclass field skip_reason
EvalResult_skip_reason(r) == Returned(r.skip_reason)

\* the is_skipped property
EvalResult_is_skipped(r) == r.skip_reason # None

(***************************************************************************)
(* Capability detection and dispatch (evaluators/base.py).                 *)
(* An evaluator is [name, hint, _supported_eval_modes, param_count]: hint  *)
(* is the type name declared for evaluate()'s first parameter (None when   *)
(* it has no type hint), param_count the cached _method_param_counts.      *)
(***************************************************************************)
TYPE_TO_LEVEL(type_name) ==
    CASE type_name = "Trace" -> "trace"
      [] type_name = "AgentTrace" -> "agent"
      [] type_name = "LLMSpan" -> "llm"
      [] OTHER -> None

\* _detect_level_from_callable for a callable with at least one parameter
_detect_level_from_callable(first_hint) ==
    IF first_hint = None
    THEN Raised("TypeError", "first parameter must have a type hint")
    ELSE IF TYPE_TO_LEVEL(first_hint) = None
    THEN Raised("TypeError", "unsupported type on first parameter")
    ELSE Returned(TYPE_TO_LEVEL(first_hint))

\* the level property
level(evaluator) == _detect_level_from_callable(evaluator.hint)

\* A designated callable (evaluate, build_prompt or a wrapped function) is its
\* signature: the sequence of its parameters, each with its name, the name of
\* its type hint (None when it has none) and its default: "empty" (no
\* default), "value", or "Param" (a _ParamDescriptor).
Parameter(name, hint, default) == [name |-> name, hint |-> hint, default |-> default]

\* [p for p in sig.parameters if p.name != "self"]
non_self_params(target) == SelectSeq(target, LAMBDA q : q.name # "self")

\* the parameters the mode and arity detection count
counted_params(target, skip_param_defaults) ==
    IF skip_param_defaults
    THEN SelectSeq(non_self_params(target), LAMBDA q : q.default # "Param")
    ELSE non_self_params(target)

\* _detect_modes_from_callable with every second parameter treated as required
detect_modes_ignoring_defaults(target, skip_param_defaults) ==
    IF Len(counted_params(target, skip_param_defaults)) <= 1
    THEN {"experiment", "monitor"}
    ELSE {"experiment"}

_detect_modes_from_callable(target, skip_param_defaults) ==
    LET params == counted_params(target, skip_param_defaults)
        required == SelectSeq(params, LAMBDA q : q.default = "empty")
    IN  IF Len(params) <= 1 THEN {"experiment", "monitor"}
        ELSE IF Len(required) >= 2 THEN {"experiment"}
        ELSE {"experiment", "monitor"}

_count_callable_params(target, skip_param_defaults) ==
    Len(counted_params(target, skip_param_defaults))

\* _detect_level with an unknown type name read as the trace level
detect_level_defaulting_to_trace(target) ==
    IF non_self_params(target) = <<>> \/ non_self_params(target)[1].hint = "None"
    THEN [exc |-> "TypeError", text |-> "no type hint", value |-> <<>>]
    ELSE [exc |-> "None", text |-> "",
          value |-> <<CASE non_self_params(target)[1].hint = "AgentTrace" -> "agent"
                        [] non_self_params(target)[1].hint = "LLMSpan" -> "llm"
                        [] OTHER -> "trace">>]

\* _detect_level: _detect_level_from_callable on the designated callable
_detect_level(target) ==
    IF non_self_params(target) = <<>>
    THEN Raised("TypeError", "method must have at least one parameter with a type hint")
    ELSE _detect_level_from_callable(non_self_params(target)[1].hint)

\* BaseEvaluator.__init__ (and the subclasses' __init__, which differ in the
\* designated callable and in skip_param_defaults): the instance caches the
\* modes and the parameter count; the level is not looked at
BaseEvaluator_init(name, target, skip_param_defaults) ==
    Returned([name |-> name,
              hint |-> IF non_self_params(target) = <<>> THEN None
                       ELSE non_self_params(target)[1].hint,
              _supported_eval_modes |-> _detect_modes_from_callable(target, skip_param_defaults),
              param_count |-> _count_callable_params(target, skip_param_defaults)])

(***************************************************************************)
(* What the body of evaluate() does on one call is an input of the model:  *)
(* it builds EvalResult(score=s), returns EvalResult.skip(reason) or       *)
(* raises; or it returns, on every call, the one EvalResult(score=s) it    *)
(* keeps (a constant of the evaluator's module, say).                      *)
(***************************************************************************)
BodyScore(s) == [op |-> "score", score |-> s, text |-> ""]
BodySkip(reason) == [op |-> "skip", score |-> 0, text |-> reason]
BodyRaise(text) == [op |-> "raise", score |-> 0, text |-> text]
BodyCached(s) == [op |-> "cached", score |-> s, text |-> ""]

evaluate(body) ==
    CASE body.op \in {"score", "cached"} -> EvalResult_init(Number(body.score), Nothing)
      [] body.op = "skip" -> Returned(EvalResult_skip(body.text))
      [] OTHER -> Raised("RuntimeError", body.text)

\* _call_evaluate passing the task whatever the parameter count
call_evaluate_always_with_task(param_count, input_data, task_arg) ==
    <<input_data, task_arg>>

\* _call_evaluate: the arguments the body is called with
_call_evaluate(param_count, input_data, task_arg) ==
    IF param_count <= 1 THEN <<input_data>> ELSE <<input_data, task_arg>>

\* the fallback AgentTrace built from get_agent_steps(deduplicate_messages=False)
fallback_agent_trace_undeduplicated(trace) ==
    AgentTrace(trace.trace_id, "", get_agent_steps(trace.spans, None, FALSE))

\* the fallback AgentTrace of run() for a trace without AgentSpans
fallback_agent_trace(trace) ==
    AgentTrace(trace.trace_id, "", get_agent_steps(trace.spans, None, TRUE))

RECURSIVE AgentTraces(_, _, _)
\* the AgentTrace built for each of agent_spans from position i on
AgentTraces(trace, agent_spans, i) ==
    IF i > Len(agent_spans) THEN <<>>
    ELSE <<create_agent_trace(trace.spans, agent_spans[i].span_id)>>
             \o AgentTraces(trace, agent_spans, i + 1)

\* the agent-level items of run(): each AgentTrace with its agent_id, the span
\* identity run() writes into the result's details
agent_items(agent_traces) ==
    [k \in 1..Len(agent_traces) |->
        [input |-> agent_traces[k], span_id |-> Some(agent_traces[k].agent_id)]]

\* the llm-level items of run(): each LLMSpan with its span_id
llm_items(llm_spans) ==
    [k \in 1..Len(llm_spans) |->
        [input |-> llm_spans[k], span_id |-> Some(llm_spans[k].span_id)]]

\* the items run() iterates over at a level (no span identity at trace level)
run_items(eval_level, trace) ==
    IF eval_level = "trace"
    THEN <<[input |-> trace, span_id |-> Nothing]>>
    ELSE IF eval_level = "agent"
    THEN IF get_agents(trace.spans) = <<>>
         THEN agent_items(<<fallback_agent_trace(trace)>>)
         ELSE agent_items(AgentTraces(trace, get_agents(trace.spans), 1))
    ELSE llm_items(get_llm_calls(trace.spans, TRUE, FALSE).returned)

\* which object the body returns on the i-th call: the one it keeps, or a
\* new one
result_object(body, i) == IF body.op = "cached" THEN 0 ELSE i

\* result.details["span_id"] = span_id, written into the object the body
\* returned: the objects of the dispatch after the write (no write at trace
\* level)
write_span_id(heap, object, fresh, span_id) ==
    (object :> (IF span_id = Nothing
                THEN (IF object \in DOMAIN heap THEN heap[object] ELSE fresh)
                ELSE [(IF object \in DOMAIN heap THEN heap[object] ELSE fresh)
                         EXCEPT !.details = span_id])) @@ heap

RECURSIVE run_loop(_, _, _, _, _, _, _, _)
\* the calls of run() from item i on; bodies[i] is what the body does on the
\* i-th call.  An exception of the body leaves run() at once.  results lists
\* the objects appended, heap holds what each object is; what run() returns
\* is read off when the loop is over.
run_loop(items, i, bodies, param_count, task, calls, results, heap) ==
    IF i > Len(items)
    THEN [exc |-> None, text |-> "", calls |-> calls,
          results |-> [k \in 1..Len(results) |-> heap[results[k]]]]
    ELSE LET args == _call_evaluate(param_count, items[i].input, task)
             r == evaluate(bodies[i])
         IN  IF r.exc # None
             THEN [exc |-> r.exc, text |-> r.text,
                   calls |-> Append(calls, args), results |-> <<>>]
             ELSE run_loop(items, i + 1, bodies, param_count, task,
                           Append(calls, args),
                           Append(results, result_object(bodies[i], i)),
                           write_span_id(heap, result_object(bodies[i], i),
                                         r.value[1], items[i].span_id))

\* BaseEvaluator.run(trace, task)
run(evaluator, trace, task, bodies) ==
    LET eval_level == level(evaluator)
    IN  IF eval_level.exc # None
        THEN [exc |-> eval_level.exc, text |-> eval_level.text,
              calls |-> <<>>, results |-> <<>>]
        ELSE run_loop(run_items(eval_level.value[1], trace), 1, bodies,
                      evaluator.param_count, task, <<>>, <<>>, <<>>)

(***************************************************************************)
(* EvaluatorScore and EvaluatorSummary (models.py).                        *)
(***************************************************************************)
\* what an EvalResult instance answers to: its dataclass fields and properties
EvalResultAttributes ==
    {"_score", "_passed", "explanation", "details", "skip_reason",
     "score", "passed", "is_skipped", "skip"}

\* the keyword arguments the dataclass EvaluatorScore accepts
EvaluatorScoreFields ==
    {"trace_id", "span_id", "timestamp", "score", "passed", "explanation",
     "task_id", "trial_id", "metadata", "skip_reason"}

\* what an EvaluatorScore instance answers to
EvaluatorScoreAttributes == EvaluatorScoreFields \cup {"is_skipped", "is_successful"}

\* the keyword arguments the dataclass EvaluatorSummary accepts
EvaluatorSummaryFields ==
    {"evaluator_name", "count", "skipped_count", "aggregated_scores",
     "individual_scores", "level", "items_per_trace"}

KwArg(kwargs, key, default) == IF key \in DOMAIN kwargs THEN kwargs[key] ELSE default

\* EvaluatorScore(**kwargs): an unknown keyword is a TypeError
EvaluatorScore_init(kwargs) ==
    IF ~(DOMAIN kwargs \subseteq EvaluatorScoreFields)
    THEN Raised("TypeError", "__init__() got an unexpected keyword argument")
    ELSE Returned([trace_id |-> kwargs.trace_id,
                   span_id |-> KwArg(kwargs, "span_id", None),
                   score |-> KwArg(kwargs, "score", Nothing),
                   passed |-> KwArg(kwargs, "passed", Nothing),
                   explanation |-> KwArg(kwargs, "explanation", None),
                   skip_reason |-> KwArg(kwargs, "skip_reason", None)])

\* EvaluatorScore.is_skipped
EvaluatorScore_is_skipped(s) == s.skip_reason # None

\* EvaluatorSummary(**kwargs): skipped_count defaults to 0
EvaluatorSummary_init(kwargs) ==
    IF ~(DOMAIN kwargs \subseteq EvaluatorSummaryFields)
    THEN Raised("TypeError", "__init__() got an unexpected keyword argument")
    ELSE Returned([evaluator_name |-> kwargs.evaluator_name,
                   count |-> kwargs.count,
                   skipped_count |-> KwArg(kwargs, "skipped_count", 0),
                   aggregated_scores |-> KwArg(kwargs, "aggregated_scores", <<>>),
                   individual_scores |-> KwArg(kwargs, "individual_scores", <<>>),
                   level |-> KwArg(kwargs, "level", "trace")])

(***************************************************************************)
(* Runner (runner.py).                                                     *)
(***************************************************************************)
\* BaseRunner.__init__ without its mode filter
filter_by_mode_keeping_all(eval_mode, evaluators) == evaluators

\* BaseRunner.__init__: the evaluators that support the runner's mode
filter_by_mode(eval_mode, evaluators) ==
    SelectSeq(evaluators, LAMBDA ev : eval_mode \in ev._supported_eval_modes)

\* BaseRunner.__init__ without the check that follows the mode filter
BaseRunner_init_keeping_empty(eval_mode, evaluators) ==
    IF evaluators = <<>>
    THEN [exc |-> "ValueError", text |-> "At least one evaluator is required",
          value |-> <<>>]
    ELSE [exc |-> "None", text |-> "",
          value |-> <<SelectSeq(evaluators,
                                LAMBDA ev : eval_mode \in ev._supported_eval_modes)>>]

\* BaseRunner.__init__(evaluators) of a runner whose mode is eval_mode
BaseRunner_init(eval_mode, evaluators) ==
    IF evaluators = <<>>
    THEN Raised("ValueError", "At least one evaluator is required")
    ELSE IF filter_by_mode(eval_mode, evaluators) = <<>>
    THEN Raised("ValueError", "No evaluators support this mode")
    ELSE Returned(filter_by_mode(eval_mode, evaluators))

\* getattr(eval_result, name) on an EvalResult
EvalResult_getattr(r, name) ==
    IF name \notin EvalResultAttributes
    THEN Raised("AttributeError", "'EvalResult' object has no attribute")
    ELSE IF name = "score" THEN EvalResult_score(r)
    ELSE IF name = "passed" THEN EvalResult_passed(r)
    ELSE IF name = "is_skipped" THEN Returned(EvalResult_is_skipped(r))
    ELSE Returned(r[name])

\* getattr(score, name) on an EvaluatorScore
EvaluatorScore_getattr(s, name) ==
    IF name \notin EvaluatorScoreAttributes
    THEN Raised("AttributeError", "'EvaluatorScore' object has no attribute")
    ELSE IF name = "is_skipped" THEN Returned(EvaluatorScore_is_skipped(s))
    ELSE IF name = "is_successful" THEN Returned(~EvaluatorScore_is_skipped(s))
    ELSE Returned(s[name])

\* the body of the loop over eval_results in evaluate_trace: the record made
\* of one result, by the branch `eval_result.is_error` selects
wrap_result(eval_result, trace) ==
    LET span_id == IF eval_result.details = Nothing THEN None
                   ELSE eval_result.details[1]
        is_error == EvalResult_getattr(eval_result, "is_error")
        error == EvalResult_getattr(eval_result, "error")
        score == EvalResult_getattr(eval_result, "score")
        passed == EvalResult_getattr(eval_result, "passed")
    IN  IF is_error.exc # None THEN is_error
        ELSE IF is_error.value[1]
        THEN IF error.exc # None THEN error
             ELSE EvaluatorScore_init(
                      [trace_id |-> trace.trace_id, score |-> Some(0),
                       passed |-> Some(FALSE), span_id |-> span_id,
                       explanation |-> eval_result.explanation,
                       error |-> error.value[1]])
        ELSE IF score.exc # None THEN score
        ELSE IF passed.exc # None THEN passed
        ELSE EvaluatorScore_init(
                 [trace_id |-> trace.trace_id, score |-> Some(score.value[1]),
                  passed |-> Some(passed.value[1]), span_id |-> span_id,
                  explanation |-> eval_result.explanation,
                  error |-> None])

RECURSIVE wrap_results(_, _, _, _)
\* the loop over eval_results from position i on
wrap_results(eval_results, i, trace, evaluator_scores) ==
    IF i > Len(eval_results) THEN Returned(evaluator_scores)
    ELSE LET w == wrap_result(eval_results[i], trace)
         IN  IF w.exc # None THEN w
             ELSE wrap_results(eval_results, i + 1, trace,
                               Append(evaluator_scores, w.value[1]))

\* the except branch of evaluate_trace: the record made of an exception
error_score(trace, text) ==
    EvaluatorScore_init(
        [trace_id |-> trace.trace_id,
         score |-> Some(0),
         passed |-> Some(FALSE),
         explanation |-> "Evaluator raised exception",
         error |-> text])

\* the log entries of the calls one dispatch made
call_entries(evaluator, trace, calls, bodies) ==
    [k \in 1..Len(calls) |->
        [evaluator |-> evaluator.name, trace_id |-> trace.trace_id,
         item |-> k, nargs |-> Len(calls[k]), body |-> bodies[k]]]

\* the try block of evaluate_trace for one evaluator, r being what
\* evaluator(trace, task) did: the evaluator's records, or the exception
try_block(r, trace) ==
    IF r.exc # None THEN Raised(r.exc, r.text)
    ELSE wrap_results(r.results, 1, trace, <<>>)

\* scores[evaluator.name] after the try statement: the records of the try
\* block, or the one record of the except branch; an exception raised inside
\* the except branch leaves evaluate_trace
try_except(tried, trace) ==
    IF tried.exc = None THEN tried
    ELSE LET handled == error_score(trace, tried.text)
         IN  IF handled.exc # None THEN handled
             ELSE Returned(<<handled.value[1]>>)

RECURSIVE evaluate_trace_loop(_, _, _, _, _, _, _)
RECURSIVE evaluate_trace_body(_, _, _, _, _, _, _, _)
RECURSIVE evaluate_trace_store(_, _, _, _, _, _, _, _)

\* evaluate_trace from the i-th active evaluator on; bodies[i] is what the body
\* of that evaluator does call by call
evaluate_trace_loop(evaluators, i, trace, task, bodies, scores, log) ==
    IF i > Len(evaluators)
    THEN [exc |-> None, text |-> "", scores |-> scores, log |-> log]
    ELSE evaluate_trace_body(evaluators, i, trace, task, bodies, scores, log,
                             run(evaluators[i], trace, task, bodies[i]))

\* the body of the loop for the i-th evaluator, r being what its dispatch did
evaluate_trace_body(evaluators, i, trace, task, bodies, scores, log, r) ==
    evaluate_trace_store(evaluators, i, trace, task, bodies, scores,
                         log \o call_entries(evaluators[i], trace, r.calls, bodies[i]),
                         try_except(try_block(r, trace), trace))

\* the assignment to scores[evaluator.name] and the next turn of the loop
evaluate_trace_store(evaluators, i, trace, task, bodies, scores, log, evaluator_scores) ==
    IF evaluator_scores.exc # None
    THEN [exc |-> evaluator_scores.exc, text |-> evaluator_scores.text,
          scores |-> scores, log |-> log]
    ELSE evaluate_trace_loop(evaluators, i + 1, trace, task, bodies,
                             (evaluators[i].name :> evaluator_scores.value[1]) @@ scores,
                             log)

\* BaseRunner.evaluate_trace(trace, task)
evaluate_trace(evaluators, trace, task, bodies) ==
    evaluate_trace_loop(evaluators, 1, trace, task, bodies, <<>>, <<>>)

\* the default aggregation, mean, over a list of score values; the value is
\* held as the pair <<sum, count>>.  An empty list cannot be averaged.
mean_compute(score_values) ==
    LET sum[k \in 0..Len(score_values)] ==
            IF k = 0 THEN 0 ELSE sum[k - 1] + score_values[k]
    IN  IF score_values = <<>>
        THEN Raised("ZeroDivisionError", "mean of no values")
        ELSE Returned(<<sum[Len(score_values)], Len(score_values)>>)

RECURSIVE successful_scores(_, _, _)
\* [s for s in all_scores if not s.is_error], from position i on
successful_scores(all_scores, i, kept) ==
    IF i > Len(all_scores) THEN Returned(kept)
    ELSE LET is_error == EvaluatorScore_getattr(all_scores[i], "is_error")
         IN  IF is_error.exc # None THEN is_error
             ELSE successful_scores(all_scores, i + 1,
                                    IF is_error.value[1] THEN kept
                                    ELSE Append(kept, all_scores[i]))

\* items_per_trace, or None unless some trace has more than one item
items_per_trace(all_scores) ==
    LET ids == {all_scores[k].trace_id : k \in 1..Len(all_scores)}
        per == [t \in ids |-> Cardinality({k \in 1..Len(all_scores) :
                                              all_scores[k].trace_id = t})]
    IN  IF \E t \in ids : per[t] > 1 THEN Some(per) ELSE Nothing

\* the body of the loop of _get_aggregated_scores: the summary of one
\* evaluator of the runner.  skipped_count is computed and logged; the
\* EvaluatorSummary is built without it.
evaluator_summary(evaluator, all_scores) ==
    LET successful == successful_scores(all_scores, 1, <<>>)
        score_values == [k \in 1..Len(successful.value[1]) |->
                            successful.value[1][k].score[1]]
        mean == mean_compute(score_values)
        aggregated_scores == IF mean.exc # None THEN <<>>
                             ELSE [mean |-> mean.value[1]]
    IN  IF successful.exc # None THEN successful
        ELSE IF level(evaluator).exc # None THEN level(evaluator)
        ELSE EvaluatorSummary_init(
                 [evaluator_name |-> evaluator.name,
                  count |-> Len(all_scores),
                  aggregated_scores |-> aggregated_scores,
                  individual_scores |-> all_scores,
                  level |-> level(evaluator).value[1],
                  items_per_trace |-> items_per_trace(all_scores)])

RECURSIVE aggregate_loop(_, _, _, _)
\* the loop of _get_aggregated_scores from the i-th evaluator on
aggregate_loop(evaluators, i, scores_by_evaluator, summaries) ==
    IF i > Len(evaluators) THEN Returned(summaries)
    ELSE LET summary == evaluator_summary(evaluators[i],
                                          scores_by_evaluator[evaluators[i].name])
         IN  IF summary.exc # None THEN summary
             ELSE aggregate_loop(evaluators, i + 1, scores_by_evaluator,
                                 (evaluators[i].name :> summary.value[1]) @@ summaries)

\* BaseRunner._get_aggregated_scores(scores_by_evaluator)
_get_aggregated_scores(evaluators, scores_by_evaluator) ==
    aggregate_loop(evaluators, 1, scores_by_evaluator, <<>>)

\* RunResult.success without its traces_evaluated > 0 half
success_without_traces(errors, traces_evaluated) == Len(errors) = 0

\* RunResult.success
success(errors, traces_evaluated) == Len(errors) = 0 /\ traces_evaluated > 0

(***************************************************************************)
(* Inputs: traces, evaluators and evaluate() bodies.                       *)
(***************************************************************************)
SpanIdOf == <<"s1", "s2", "s3", "s4">>

\* what an LLMSpan may hold: a plain call, a call that carries a tool result
\* and asks for another tool call, and an empty call
Payloads ==
    {[messages |-> <<SystemMessage("sys"), UserMessage("hi")>>,
      response |-> "answer", tool_calls |-> <<>>],
     [messages |-> <<SystemMessage("sys"), UserMessage("hi"),
                     AssistantMessage("", <<ToolCall("c1", "search")>>),
                     ToolMessage("found", "c1")>>,
      response |-> "", tool_calls |-> <<ToolCall("c2", "search")>>],
     [messages |-> <<>>, response |-> "", tool_calls |-> <<>>]}

\* the spans that may stand at position i of a trace of n spans: any kind, with
\* no parent or any other span of the trace as parent
SpanChoices(i, n) ==
    LET parents == {None} \cup {SpanIdOf[j] : j \in (1..n) \ {i}}
    IN  UNION {{LLMSpan(SpanIdOf[i], p, pl.messages, pl.response, pl.tool_calls) :
                    pl \in Payloads}
               \cup {ToolSpan(SpanIdOf[i], p, "search"),
                     RetrieverSpan(SpanIdOf[i], p),
                     AgentSpan(SpanIdOf[i], p, "agent")} : p \in parents}

RECURSIVE SpanLists(_, _)
SpanLists(i, n) ==
    IF i > n THEN {<<>>}
    ELSE {<<s>> \o rest : s \in SpanChoices(i, n), rest \in SpanLists(i + 1, n)}

DispatchTraces == {Trace("t1", spans) : spans \in UNION {SpanLists(1, n) : n \in 0..MaxSpans}}

Hints == {"Trace", "AgentTrace", "LLMSpan", None}
Modes == {"experiment", "monitor"}

Evaluator(name, hint, modes, param_count) ==
    [name |-> name, hint |-> hint, _supported_eval_modes |-> modes,
     param_count |-> param_count]

Bodies == {BodyScore(10), BodySkip("no evidence"), BodyRaise("boom")}

\* what a body may do on a call of one dispatch
DispatchBodies == Bodies \cup {BodyCached(10)}

\* the number of items one dispatch of the evaluator on the trace iterates over
ItemCount(evaluator, trace) ==
    IF level(evaluator).exc # None THEN 0
    ELSE Len(run_items(level(evaluator).value[1], trace))

\* the traces a run is given: no span at all, or two agents with an LLM call each
RunnerSpanLists ==
    {<<>>,
     <<AgentSpan("s1", None, "agent"),
       LLMSpan("s2", "s1", <<SystemMessage("sys"), UserMessage("hi")>>, "answer", <<>>),
       AgentSpan("s3", None, "agent"),
       LLMSpan("s4", "s3", <<SystemMessage("sys"), UserMessage("hi")>>, "answer", <<>>)>>}

TraceIdOf == <<"t1", "t2", "t3", "t4">>

RECURSIVE TraceLists(_, _)
\* the lists of n traces, the i-th trace named TraceIdOf[i]
TraceLists(i, n) ==
    IF i > n THEN {<<>>}
    ELSE {<<Trace(TraceIdOf[i], spans)>> \o rest :
              spans \in RunnerSpanLists, rest \in TraceLists(i + 1, n)}

\* the evaluators a runner may be handed as its i-th: any hint, any non-empty
\* set of supported modes; one that needs the task takes two parameters
RunnerEvaluators(i) ==
    {Evaluator(<<"e1", "e2">>[i], h, m, IF m = {"experiment"} THEN 2 ELSE 1) :
         h \in Hints, m \in (SUBSET Modes) \ {{}}}

EvaluatorLists ==
    {<<>>} \cup {<<a>> : a \in RunnerEvaluators(1)}
           \cup {<<a, b>> : a \in RunnerEvaluators(1), b \in RunnerEvaluators(2)}

RECURSIVE BodyChoices(_, _, _)
\* what the bodies of the evaluators from the i-th on may do on one trace
BodyChoices(evaluators, i, trace) ==
    IF i > Len(evaluators) THEN {<<>>}
    ELSE {<<b>> \o rest :
              b \in [1..ItemCount(evaluators[i], trace) -> Bodies],
              rest \in BodyChoices(evaluators, i + 1, trace)}

\* the records an aggregation may be handed: scored, skipped
ScoreRecords ==
    {EvaluatorScore_init([trace_id |-> t, score |-> Some(v), passed |-> Some(v >= 5)]).value[1] :
         t \in {"t1", "t2"}, v \in {0, 5, 10}}
    \cup {EvaluatorScore_init([trace_id |-> t, skip_reason |-> "no evidence"]).value[1] :
              t \in {"t1", "t2"}}

RECURSIVE ScoreLists(_)
ScoreLists(n) ==
    IF n = 0 THEN {<<>>}
    ELSE {<<s>> \o rest : s \in ScoreRecords, rest \in ScoreLists(n - 1)}

(***************************************************************************)
(* State.                                                                  *)
(***************************************************************************)
VARIABLES
    d_trace,        \* dispatch: the trace handed to BaseEvaluator.run
    d_evaluator,    \* dispatch: the evaluator
    d_task,         \* dispatch: the task argument
    d_pc,           \* dispatch: "ready", then "done"
    d_out,          \* dispatch: what run() did: exception, calls, results
    r_eval_mode,    \* runner: eval_mode of the runner class
    r_supplied,     \* runner: the evaluators handed to __init__
    r_traces,       \* runner: the traces handed to _evaluate_traces
    r_pc,           \* runner: "new", "constructed" or "rejected", "running",
                    \*         then "done" or "raised"
    r_evaluators,   \* runner: self._evaluators
    r_next,         \* runner: position of the next trace of the loop
    r_scores_by_evaluator,  \* runner: scores_by_evaluator
    r_traces_evaluated,     \* runner: result.traces_evaluated
    r_errors,       \* runner: result.errors
    r_scores,       \* runner: result.scores
    r_log,          \* runner: every call of an evaluate() body so far
    e_pc,           \* result: "new", "made", "read"
    e_made,         \* result: how the EvalResult was built, from which score,
                    \*         and what building it gave
    e_read,         \* result: the attribute read and what reading gave
    a_evaluator,    \* aggregation: the evaluator of the summary
    a_all_scores,   \* aggregation: its records
    a_pc,           \* aggregation: "ready", then "done"
    a_out,          \* aggregation: what evaluator_summary gave
    s_target,       \* detection: the signature of the designated callable
    s_skip,         \* detection: skip_param_defaults of the evaluator class
    s_pc,           \* detection: "new", "constructed", "read"
    s_instance,     \* detection: the evaluator instance __init__ built
    s_level,        \* detection: what reading instance.level gave
    t_spans,        \* reconstruction: the spans of the trace
    t_roots,        \* reconstruction: the spans the last pass selected
    t_left,         \* reconstruction: the hashes the last pass left in its set
    t_passes,       \* reconstruction: the steps of each pass so far
    j_max_retries,  \* judge: self.max_retries
    j_param_count,  \* judge: the cached parameter count of build_prompt
    j_task,         \* judge: the task handed to evaluate
    j_pc,           \* judge: "ready", "loop", then "done" or "raised"
    j_prompt,       \* judge: the arguments build_prompt was called with
    j_attempt,      \* judge: attempts made so far
    j_last_error,   \* judge: last_error
    j_calls,        \* judge: the content sent by each completion() call
    j_out,          \* judge: what _call_llm_with_retry gave
    t_plain,        \* access: the steps get_agent_steps() gave without deduplication
    t_llm_calls,    \* access: what get_llm_calls gave
    t_agent_trace,  \* access: what create_agent_trace gave
    w_spans,        \* walk: the spans of the trace
    w_agent_span_id, \* walk: the agent_span_id _get_root_level_spans is given
    w_pc,           \* walk: "descend", "select", "walk", then "done"
    w_stack,        \* walk: the frames [parent_id, i] of _get_descendant_spans
    w_seen,         \* walk: the _visited set of _get_descendant_spans
    w_candidates,   \* walk: candidate_spans
    w_i,            \* walk: the position of the candidate at hand
    w_current_id,   \* walk: current_id of has_tool_ancestor
    w_visited,      \* walk: visited of has_tool_ancestor
    w_roots         \* walk: root_spans

dispatchVars == <<d_trace, d_evaluator, d_task, d_pc, d_out>>
runnerVars == <<r_eval_mode, r_supplied, r_traces, r_pc, r_evaluators, r_next,
                r_scores_by_evaluator, r_traces_evaluated, r_errors, r_scores, r_log>>
resultVars == <<e_pc, e_made, e_read>>
aggregationVars == <<a_evaluator, a_all_scores, a_pc, a_out>>

detectionVars == <<s_target, s_skip, s_pc, s_instance, s_level>>
reconstructionVars == <<t_spans, t_roots, t_left, t_passes>>
judgeVars == <<j_max_retries, j_param_count, j_task, j_pc, j_prompt, j_attempt,
               j_last_error, j_calls, j_out>>

accessVars == <<t_plain, t_llm_calls, t_agent_trace>>
walkVars == <<w_spans, w_agent_span_id, w_pc, w_stack, w_seen, w_candidates, w_i,
              w_current_id, w_visited, w_roots>>
laterVars == <<accessVars, walkVars>>

vars == <<dispatchVars, runnerVars, resultVars, aggregationVars,
          detectionVars, reconstructionVars, judgeVars, laterVars>>

NoRun == [exc |-> None, text |-> "", calls |-> <<>>, results |-> <<>>]
NoOutcome == Raised(None, "")
NoEvaluator == Evaluator("", None, {}, 0)
NoResult == [by |-> None, score |-> Number(0), out |-> NoOutcome]

DispatchIdle ==
    /\ d_trace = Trace("", <<>>)
    /\ d_evaluator = NoEvaluator
    /\ d_task = None
    /\ d_pc = "off"
    /\ d_out = NoRun

RunnerIdle ==
    /\ r_eval_mode = None
    /\ r_supplied = <<>>
    /\ r_traces = <<>>
    /\ r_pc = "off"
    /\ r_evaluators = <<>>
    /\ r_next = 0
    /\ r_scores_by_evaluator = <<>>
    /\ r_traces_evaluated = 0
    /\ r_errors = <<>>
    /\ r_scores = <<>>
    /\ r_log = <<>>

ResultIdle ==
    /\ e_pc = "off"
    /\ e_made = NoResult
    /\ e_read = [attribute |-> None, out |-> NoOutcome]

AggregationIdle ==
    /\ a_evaluator = NoEvaluator
    /\ a_all_scores = <<>>
    /\ a_pc = "off"
    /\ a_out = NoOutcome

DetectionIdle ==
    /\ s_target = <<>>
    /\ s_skip = FALSE
    /\ s_pc = "off"
    /\ s_instance = NoEvaluator
    /\ s_level = NoOutcome

ReconstructionIdle ==
    /\ t_spans = <<>>
    /\ t_roots = <<>>
    /\ t_left = {}
    /\ t_passes = <<>>

JudgeIdle ==
    /\ j_max_retries = 0
    /\ j_param_count = 0
    /\ j_task = None
    /\ j_pc = "off"
    /\ j_prompt = <<>>
    /\ j_attempt = 0
    /\ j_last_error = None
    /\ j_calls = <<>>
    /\ j_out = NoOutcome

AccessIdle ==
    /\ t_plain = Nothing
    /\ t_llm_calls = Nothing
    /\ t_agent_trace = Nothing

WalkIdle ==
    /\ w_spans = <<>>
    /\ w_agent_span_id = None
    /\ w_pc = "off"
    /\ w_stack = <<>>
    /\ w_seen = {}
    /\ w_candidates = <<>>
    /\ w_i = 0
    /\ w_current_id = None
    /\ w_visited = {}
    /\ w_roots = <<>>

LaterIdle == AccessIdle /\ WalkIdle

\* the state of the parts a specification leaves alone
OthersIdle == DetectionIdle /\ ReconstructionIdle /\ JudgeIdle /\ LaterIdle
otherVars == <<detectionVars, reconstructionVars, judgeVars, laterVars>>

(***************************************************************************)
(* One dispatch: BaseEvaluator.run applied to any trace and evaluator.     *)
(***************************************************************************)
DispatchInit ==
    /\ d_trace \in DispatchTraces
    /\ d_evaluator \in {Evaluator("e1", h, Modes, n) : h \in Hints, n \in {1, 2}}
    /\ d_task \in {None, "task1"}
    /\ d_pc = "ready"
    /\ d_out = NoRun
    /\ RunnerIdle /\ ResultIdle /\ AggregationIdle /\ OthersIdle

Dispatch ==
    /\ d_pc = "ready"
    /\ \E bodies \in [1..ItemCount(d_evaluator, d_trace) -> DispatchBodies] :
           d_out' = run(d_evaluator, d_trace, d_task, bodies)
    /\ d_pc' = "done"
    /\ UNCHANGED <<d_trace, d_evaluator, d_task, runnerVars, resultVars, aggregationVars, otherVars>>

DispatchNext == Dispatch

SpecDispatch == DispatchInit /\ [][DispatchNext]_vars

(***************************************************************************)
(* One run of a runner: construction, then _evaluate_traces.               *)
(***************************************************************************)
RunnerInit ==
    /\ r_eval_mode \in Modes
    /\ r_supplied \in EvaluatorLists
    /\ r_traces \in UNION {TraceLists(1, n) : n \in 0..MaxTraces}
    /\ r_pc = "new"
    /\ r_evaluators = <<>>
    /\ r_next = 0
    /\ r_scores_by_evaluator = <<>>
    /\ r_traces_evaluated = 0
    /\ r_errors = <<>>
    /\ r_scores = <<>>
    /\ r_log = <<>>
    /\ DispatchIdle /\ ResultIdle /\ AggregationIdle /\ OthersIdle

\* BaseRunner.__init__
Construct ==
    /\ r_pc = "new"
    /\ LET made == BaseRunner_init(r_eval_mode, r_supplied)
       IN  IF made.exc # None
           THEN r_pc' = "rejected" /\ UNCHANGED r_evaluators
           ELSE r_pc' = "constructed" /\ r_evaluators' = made.value[1]
    /\ UNCHANGED <<r_eval_mode, r_supplied, r_traces, r_next, r_scores_by_evaluator,
                   r_traces_evaluated, r_errors, r_scores, r_log>>
    /\ UNCHANGED <<dispatchVars, resultVars, aggregationVars, otherVars>>

\* _evaluate_traces up to its loop
StartRun ==
    /\ r_pc = "constructed"
    /\ r_pc' = "running"
    /\ r_next' = 1
    /\ r_scores_by_evaluator' =
           [name \in {r_evaluators[k].name : k \in 1..Len(r_evaluators)} |-> <<>>]
    /\ UNCHANGED <<r_eval_mode, r_supplied, r_traces, r_evaluators,
                   r_traces_evaluated, r_errors, r_scores, r_log>>
    /\ UNCHANGED <<dispatchVars, resultVars, aggregationVars, otherVars>>

\* one turn of the loop of _evaluate_traces: evaluate_trace on the next trace
EvaluateTrace ==
    /\ r_pc = "running"
    /\ r_next <= Len(r_traces)
    /\ LET trace == r_traces[r_next]
           task == IF r_eval_mode = "experiment" THEN "task1" ELSE None
       IN  \E bodies \in BodyChoices(r_evaluators, 1, trace) :
               LET trace_scores == evaluate_trace(r_evaluators, trace, task, bodies)
               IN  /\ r_log' = r_log \o trace_scores.log
                   /\ IF trace_scores.exc = None
                      THEN /\ r_traces_evaluated' = r_traces_evaluated + 1
                           /\ r_scores_by_evaluator' =
                                  [name \in DOMAIN r_scores_by_evaluator |->
                                      r_scores_by_evaluator[name] \o trace_scores.scores[name]]
                           /\ UNCHANGED r_errors
                      ELSE /\ r_errors' = Append(r_errors,
                                                 [trace_id |-> trace.trace_id,
                                                  text |-> trace_scores.text])
                           /\ UNCHANGED <<r_traces_evaluated, r_scores_by_evaluator>>
    /\ r_next' = r_next + 1
    /\ UNCHANGED <<r_eval_mode, r_supplied, r_traces, r_pc, r_evaluators, r_scores>>
    /\ UNCHANGED <<dispatchVars, resultVars, aggregationVars, otherVars>>

\* _evaluate_traces after its loop: _get_aggregated_scores, which may raise
Finish ==
    /\ r_pc = "running"
    /\ r_next > Len(r_traces)
    /\ LET summaries == _get_aggregated_scores(r_evaluators, r_scores_by_evaluator)
       IN  IF summaries.exc # None
           THEN r_pc' = "raised" /\ UNCHANGED r_scores
           ELSE r_pc' = "done" /\ r_scores' = summaries.value[1]
    /\ UNCHANGED <<r_eval_mode, r_supplied, r_traces, r_evaluators, r_next,
                   r_scores_by_evaluator, r_traces_evaluated, r_errors, r_log>>
    /\ UNCHANGED <<dispatchVars, resultVars, aggregationVars, otherVars>>

Next == Construct \/ StartRun \/ EvaluateTrace \/ Finish

Spec == RunnerInit /\ [][Next]_vars

(***************************************************************************)
(* One EvalResult: built by EvalResult(score=..., passed=...) or by        *)
(* EvalResult.skip(reason), then read attribute by attribute.              *)
(***************************************************************************)
\* the scores a caller may hand to EvalResult: something that is not a number,
\* and every tenth from ScoreExcess below 0.0 to ScoreExcess above 1.0
ScoreInputs == {NotANumber} \cup {Number(v) : v \in (0 - ScoreExcess)..(10 + ScoreExcess)}

SkipReasons == {"no evidence", "no ground truth"}

ReadAttributes == {"score", "passed", "skip_reason", "is_skipped"}

ResultInit ==
    /\ e_pc = "new"
    /\ e_made = NoResult
    /\ e_read = [attribute |-> None, out |-> NoOutcome]
    /\ DispatchIdle /\ RunnerIdle /\ AggregationIdle /\ OthersIdle

\* EvalResult(score=score, passed=passed)
MakeScored ==
    /\ e_pc = "new"
    /\ \E score \in ScoreInputs, passed \in {Nothing, Some(TRUE), Some(FALSE)} :
           e_made' = [by |-> "__init__", score |-> score,
                      out |-> EvalResult_init(score, passed)]
    /\ e_pc' = "made"
    /\ UNCHANGED <<e_read, dispatchVars, runnerVars, aggregationVars, otherVars>>

\* EvalResult.skip(reason)
MakeSkipped ==
    /\ e_pc = "new"
    /\ \E reason \in SkipReasons :
           e_made' = [by |-> "skip", score |-> Number(0),
                      out |-> Returned(EvalResult_skip(reason))]
    /\ e_pc' = "made"
    /\ UNCHANGED <<e_read, dispatchVars, runnerVars, aggregationVars, otherVars>>

\* reading one attribute of the result that was built
ReadAttribute ==
    /\ e_pc \in {"made", "read"}
    /\ e_made.out.exc = None
    /\ \E attribute \in ReadAttributes :
           e_read' = [attribute |-> attribute,
                      out |-> EvalResult_getattr(e_made.out.value[1], attribute)]
    /\ e_pc' = "read"
    /\ UNCHANGED <<e_made, dispatchVars, runnerVars, aggregationVars, otherVars>>

ResultNext == MakeScored \/ MakeSkipped \/ ReadAttribute

SpecResult == ResultInit /\ [][ResultNext]_vars

(***************************************************************************)
(* One summary: the body of the loop of _get_aggregated_scores applied to  *)
(* any evaluator and any list of its records.                              *)
(***************************************************************************)
AggregationInit ==
    /\ a_evaluator \in {Evaluator("e1", h, Modes, 1) : h \in Hints}
    /\ a_all_scores \in UNION {ScoreLists(n) : n \in 0..MaxScores}
    /\ a_pc = "ready"
    /\ a_out = NoOutcome
    /\ DispatchIdle /\ RunnerIdle /\ ResultIdle /\ OthersIdle

Aggregate ==
    /\ a_pc = "ready"
    /\ a_out' = evaluator_summary(a_evaluator, a_all_scores)
    /\ a_pc' = "done"
    /\ UNCHANGED <<a_evaluator, a_all_scores, dispatchVars, runnerVars, resultVars, otherVars>>

AggregationNext == Aggregate

SpecAggregation == AggregationInit /\ [][AggregationNext]_vars

(***************************************************************************)
(* One evaluator: construction from its designated callable, then a read   *)
(* of its level property.                                                  *)
(***************************************************************************)
\* the type hints a first parameter may carry: the three known names, none,
\* and a name that is none of the three
SignatureHints == Hints \cup {"str"}

ParameterNameOf == <<"p1", "p2", "p3", "p4">>

RECURSIVE ParameterLists(_, _)
\* the lists of parameters i..n, self apart
ParameterLists(i, n) ==
    IF i > n THEN {<<>>}
    ELSE {<<Parameter(ParameterNameOf[i], h, d)>> \o rest :
              h \in SignatureHints, d \in {"empty", "value", "Param"},
              rest \in ParameterLists(i + 1, n)}

\* the signatures of methods (self first) and of plain functions
Signatures ==
    LET lists == UNION {ParameterLists(1, n) : n \in 0..MaxParams}
    IN  lists \cup {<<Parameter("self", None, "empty")>> \o l : l \in lists}

DetectionInit ==
    /\ s_target \in Signatures
    /\ s_skip \in BOOLEAN
    /\ s_pc = "new"
    /\ s_instance = NoEvaluator
    /\ s_level = NoOutcome
    /\ DispatchIdle /\ RunnerIdle /\ ResultIdle /\ AggregationIdle
    /\ ReconstructionIdle /\ JudgeIdle /\ LaterIdle

\* the evaluator's __init__
ConstructEvaluator ==
    /\ s_pc = "new"
    /\ LET made == BaseEvaluator_init("e1", s_target, s_skip)
       IN  IF made.exc # None
           THEN s_pc' = "rejected" /\ UNCHANGED s_instance
           ELSE s_pc' = "constructed" /\ s_instance' = made.value[1]
    /\ UNCHANGED <<s_target, s_skip, s_level>>
    /\ UNCHANGED <<dispatchVars, runnerVars, resultVars, aggregationVars,
                   reconstructionVars, judgeVars, laterVars>>

\* a read of instance.level
ReadLevel ==
    /\ s_pc = "constructed"
    /\ s_level' = _detect_level(s_target)
    /\ s_pc' = "read"
    /\ UNCHANGED <<s_target, s_skip, s_instance>>
    /\ UNCHANGED <<dispatchVars, runnerVars, resultVars, aggregationVars,
                   reconstructionVars, judgeVars, laterVars>>

DetectionNext == ConstructEvaluator \/ ReadLevel

SpecDetection == DetectionInit /\ [][DetectionNext]_vars

(***************************************************************************)
(* Step reconstruction: get_agent_steps(deduplicate_messages=True) applied *)
(* to one trace, pass after pass.                                          *)
(***************************************************************************)
\* the spans that may stand at position i of a trace of n spans: an LLM call,
\* a tool or an agent, whose parent is nothing, a span that is not in the
\* trace, or any other span of the trace
TreeSpanChoices(i, n) ==
    LET parents == {None, "s0"} \cup {SpanIdOf[j] : j \in (1..n) \ {i}}
    IN  UNION {{LLMSpan(SpanIdOf[i], q, <<SystemMessage("sys"), UserMessage("hi")>>,
                        "answer", <<>>),
                ToolSpan(SpanIdOf[i], q, "search"),
                AgentSpan(SpanIdOf[i], q, "agent")} : q \in parents}

RECURSIVE TreeSpanLists(_, _)
TreeSpanLists(i, n) ==
    IF i > n THEN {<<>>}
    ELSE {<<sp>> \o rest : sp \in TreeSpanChoices(i, n), rest \in TreeSpanLists(i + 1, n)}

ReconstructionInit ==
    /\ t_spans \in UNION {TreeSpanLists(1, n) : n \in 0..MaxTreeSpans}
    /\ t_roots = <<>>
    /\ t_left = {}
    /\ t_passes = <<>>
    /\ DispatchIdle /\ RunnerIdle /\ ResultIdle /\ AggregationIdle
    /\ DetectionIdle /\ JudgeIdle /\ LaterIdle

\* trace.get_agent_steps(deduplicate_messages=True)
Reconstruct ==
    /\ Len(t_passes) < MaxPasses
    /\ t_roots' = _get_root_level_spans(t_spans, None)
    /\ \E pass \in {reconstruct_pass(t_spans, t_roots', TRUE, t_left)} :
           /\ t_passes' = Append(t_passes, pass.steps)
           /\ t_left' = pass.left
    /\ UNCHANGED t_spans
    /\ UNCHANGED <<dispatchVars, runnerVars, resultVars, aggregationVars,
                   detectionVars, judgeVars, laterVars>>

ReconstructionNext == Reconstruct

SpecReconstruction == ReconstructionInit /\ [][ReconstructionNext]_vars

(***************************************************************************)
(* LLM-as-judge (evaluators/base.py).  A string is the sequence of its     *)
(* parts, so that + is \o.  A response of the LLM is a JSON object with a  *)
(* score in tenths, text that is no JSON, or completion() raising.         *)
(***************************************************************************)
\* LLMAsJudgeEvaluator.threshold, the default 0.5 in tenths
threshold == 5

_OUTPUT_INSTRUCTIONS == <<"_OUTPUT_INSTRUCTIONS">>

\* the user's build_prompt: its text depends on every argument it was given
build_prompt(args) == <<[build_prompt |-> args]>>

_dispatch_build_prompt(param_count, input_data, task) ==
    IF param_count <= 1
    THEN build_prompt(<<input_data>>)
    ELSE build_prompt(<<input_data, task>>)

JsonResponse(score) == [kind |-> "json", score |-> score]
GarbageResponse == [kind |-> "text", score |-> 0]
CompletionRaises == [kind |-> "raises", score |-> 0]

\* JudgeOutput.model_validate_json: the ValidationError text, None when valid
JudgeOutput_validate(content) ==
    IF content.kind # "json" THEN "Invalid JSON"
    ELSE IF ~(0 <= content.score) THEN "score: Input should be greater than or equal to 0"
    ELSE IF ~(content.score <= 10) THEN "score: Input should be less than or equal to 1"
    ELSE None

\* _parse_and_validate: the pair (result, error)
_parse_and_validate(content) ==
    IF JudgeOutput_validate(content) # None
    THEN [result |-> Nothing, error |-> JudgeOutput_validate(content)]
    ELSE [result |-> Some(EvalResult_init(Number(content.score),
                                          Some(content.score >= threshold))),
          error |-> None]

\* the retry context that never says what went wrong
retry_ctx_silent(last_error, attempt) == <<>>

\* the retry context of one pass of the loop of _call_llm_with_retry
retry_ctx(last_error, attempt) ==
    IF last_error \notin {None, ""} /\ attempt > 0
    THEN <<[previous_response_was_invalid |-> last_error]>>
    ELSE <<>>

\* the result returned when the loop of _call_llm_with_retry runs out
retries_exhausted == EvalResult_init(Number(0), Some(FALSE))

Responses == {JsonResponse(0), JsonResponse(7), JsonResponse(10), JsonResponse(12),
              GarbageResponse, CompletionRaises}

JudgeInit ==
    /\ j_max_retries \in 0..MaxRetries
    /\ j_param_count \in 1..2
    /\ j_task \in {None, "task1"}
    /\ j_pc = "ready"
    /\ j_prompt = <<>>
    /\ j_attempt = 0
    /\ j_last_error = None
    /\ j_calls = <<>>
    /\ j_out = NoOutcome
    /\ DispatchIdle /\ RunnerIdle /\ ResultIdle /\ AggregationIdle
    /\ DetectionIdle /\ ReconstructionIdle /\ LaterIdle

\* evaluate up to the first pass of the loop of _call_llm_with_retry
JudgeEvaluate ==
    /\ j_pc = "ready"
    /\ j_prompt' = _dispatch_build_prompt(j_param_count, "item", j_task) \o _OUTPUT_INSTRUCTIONS
    /\ j_attempt' = 0
    /\ j_last_error' = None
    /\ j_pc' = "loop"
    /\ UNCHANGED <<j_max_retries, j_param_count, j_task, j_calls, j_out>>
    /\ UNCHANGED <<dispatchVars, runnerVars, resultVars, aggregationVars,
                   detectionVars, reconstructionVars, laterVars>>

\* one pass of the loop: the call, the answer of the LLM and what follows it,
\* the return after the last pass included
JudgeAttempt ==
    /\ j_pc = "loop"
    /\ j_attempt < j_max_retries + 1
    /\ \E response \in Responses :
          /\ j_calls' = Append(j_calls,
                               [content |-> j_prompt \o retry_ctx(j_last_error, j_attempt),
                                response |-> response])
          /\ IF response.kind = "raises"
             THEN /\ j_out' = Raised("APIError", "completion failed")
                  /\ j_pc' = "done"
                  /\ UNCHANGED <<j_attempt, j_last_error>>
             ELSE IF _parse_and_validate(response).result # Nothing
             THEN /\ j_out' = _parse_and_validate(response).result[1]
                  /\ j_pc' = "done"
                  /\ UNCHANGED <<j_attempt, j_last_error>>
             ELSE /\ j_last_error' = _parse_and_validate(response).error
                  /\ j_attempt' = j_attempt + 1
                  /\ IF j_attempt + 1 < j_max_retries + 1
                     THEN UNCHANGED <<j_pc, j_out>>
                     ELSE /\ j_out' = retries_exhausted
                          /\ j_pc' = "done"
    /\ UNCHANGED <<j_max_retries, j_param_count, j_task, j_prompt>>
    /\ UNCHANGED <<dispatchVars, runnerVars, resultVars, aggregationVars,
                   detectionVars, reconstructionVars, laterVars>>

JudgeNext == JudgeEvaluate \/ JudgeAttempt

SpecJudge == JudgeInit /\ [][JudgeNext]_vars

(***************************************************************************)
(* _get_root_level_spans step by step: the recursion of                    *)
(* _get_descendant_spans as a stack of frames, then one turn of the        *)
(* selection loop or of the while loop of has_tool_ancestor at a time.     *)
(* The parent pointers of the spans may form cycles.                       *)
(***************************************************************************)
\* `span.span_id not in _visited` of _get_descendant_spans, negated
already_collected(span_id, _visited) == span_id \in _visited

\* the test of has_tool_ancestor that never finds an id visited
chain_never_revisited(current_id, visited) == FALSE

\* `current_id in visited` of has_tool_ancestor
chain_revisited(current_id, visited) == current_id \in visited

\* the spans that may stand at position i of a trace of n spans: a tool or an
\* agent whose parent is nothing or any span of the trace, itself included
WalkSpanChoices(i, n) ==
    UNION {{ToolSpan(SpanIdOf[i], q, "search"), AgentSpan(SpanIdOf[i], q, "agent")} :
               q \in {None} \cup {SpanIdOf[j] : j \in 1..n}}

RECURSIVE WalkSpanLists(_, _)
WalkSpanLists(i, n) ==
    IF i > n THEN {<<>>}
    ELSE {<<sp>> \o rest : sp \in WalkSpanChoices(i, n), rest \in WalkSpanLists(i + 1, n)}

WalkInit ==
    /\ w_spans \in UNION {WalkSpanLists(1, n) : n \in 0..MaxWalkSpans}
    /\ w_agent_span_id \in {None} \cup {w_spans[k].span_id :
                                            k \in {n \in 1..Len(w_spans) : w_spans[n].kind = "agent"}}
    /\ w_pc = "start"
    /\ w_stack = <<>>
    /\ w_seen = {}
    /\ w_candidates = <<>>
    /\ w_i = 0
    /\ w_current_id = None
    /\ w_visited = {}
    /\ w_roots = <<>>
    /\ DispatchIdle /\ RunnerIdle /\ ResultIdle /\ AggregationIdle
    /\ DetectionIdle /\ ReconstructionIdle /\ JudgeIdle /\ AccessIdle

\* _get_root_level_spans up to the choice of candidate_spans
StartSelection ==
    /\ w_pc = "start"
    /\ IF w_agent_span_id # None
       THEN /\ w_pc' = "descend"
            /\ w_stack' = <<[parent_id |-> w_agent_span_id, i |-> 1]>>
            /\ UNCHANGED <<w_candidates, w_i>>
       ELSE /\ w_pc' = "select"
            /\ w_candidates' = w_spans
            /\ w_i' = 1
            /\ UNCHANGED w_stack
    /\ UNCHANGED <<w_spans, w_agent_span_id, w_seen, w_current_id, w_visited, w_roots>>
    /\ UNCHANGED <<dispatchVars, runnerVars, resultVars, aggregationVars,
                   detectionVars, reconstructionVars, judgeVars, accessVars>>

\* one turn of the for loop of the innermost call of _get_descendant_spans,
\* or its return; a call is made only while fewer calls are open than the
\* trace has spans, plus one
DescendStep ==
    /\ w_pc = "descend"
    /\ LET top == w_stack[Len(w_stack)]
       IN  IF top.i > Len(w_spans)
           THEN /\ w_stack' = SubSeq(w_stack, 1, Len(w_stack) - 1)
                /\ IF Len(w_stack) = 1
                   THEN w_pc' = "select" /\ w_i' = 1
                   ELSE UNCHANGED <<w_pc, w_i>>
                /\ UNCHANGED <<w_seen, w_candidates>>
           ELSE IF /\ w_spans[top.i].parent_span_id = top.parent_id
                   /\ ~already_collected(w_spans[top.i].span_id, w_seen)
           THEN /\ Len(w_stack) <= Len(w_spans) + 1
                /\ w_seen' = w_seen \cup {w_spans[top.i].span_id}
                /\ w_candidates' = Append(w_candidates, w_spans[top.i])
                /\ w_stack' = [w_stack EXCEPT ![Len(w_stack)].i = top.i + 1]
                                  \o <<[parent_id |-> w_spans[top.i].span_id, i |-> 1]>>
                /\ UNCHANGED <<w_pc, w_i>>
           ELSE /\ w_stack' = [w_stack EXCEPT ![Len(w_stack)].i = top.i + 1]
                /\ UNCHANGED <<w_pc, w_i, w_seen, w_candidates>>
    /\ UNCHANGED <<w_spans, w_agent_span_id, w_current_id, w_visited, w_roots>>
    /\ UNCHANGED <<dispatchVars, runnerVars, resultVars, aggregationVars,
                   detectionVars, reconstructionVars, judgeVars, accessVars>>

\* one turn of the selection loop up to the call of has_tool_ancestor, or
\* the return of _get_root_level_spans
SelectStep ==
    /\ w_pc = "select"
    /\ IF w_i > Len(w_candidates)
       THEN w_pc' = "done" /\ UNCHANGED <<w_i, w_current_id, w_roots>>
       ELSE IF w_candidates[w_i].parent_span_id = None
       THEN /\ w_roots' = Append(w_roots, w_candidates[w_i])
            /\ w_i' = w_i + 1
            /\ UNCHANGED <<w_pc, w_current_id>>
       ELSE /\ w_pc' = "walk"
            /\ w_current_id' = w_candidates[w_i].parent_span_id
            /\ UNCHANGED <<w_i, w_roots>>
    /\ w_visited' = {}
    /\ UNCHANGED <<w_spans, w_agent_span_id, w_stack, w_seen, w_candidates>>
    /\ UNCHANGED <<dispatchVars, runnerVars, resultVars, aggregationVars,
                   detectionVars, reconstructionVars, judgeVars, accessVars>>

\* one turn of the while loop of has_tool_ancestor; when it returns, the rest
\* of the turn of the selection loop
WalkStep ==
    /\ w_pc = "walk"
    /\ IF \/ w_current_id = None
          \/ chain_revisited(w_current_id, w_visited)
          \/ (w_current_id \notin tool_span_ids(w_spans) /\ ~has_span(w_spans, w_current_id))
       THEN /\ w_roots' = Append(w_roots, w_candidates[w_i])
            /\ w_i' = w_i + 1
            /\ w_pc' = "select"
            /\ w_current_id' = None
            /\ w_visited' = {}
       ELSE IF w_current_id \in tool_span_ids(w_spans)
       THEN /\ w_i' = w_i + 1
            /\ w_pc' = "select"
            /\ w_current_id' = None
            /\ w_visited' = {}
            /\ UNCHANGED w_roots
       ELSE /\ w_visited' = w_visited \cup {w_current_id}
            /\ w_current_id' = span_by_id(w_spans, w_current_id).parent_span_id
            /\ UNCHANGED <<w_i, w_pc, w_roots>>
    /\ UNCHANGED <<w_spans, w_agent_span_id, w_stack, w_seen, w_candidates>>
    /\ UNCHANGED <<dispatchVars, runnerVars, resultVars, aggregationVars,
                   detectionVars, reconstructionVars, judgeVars, accessVars>>

WalkNext == StartSelection \/ DescendStep \/ SelectStep \/ WalkStep

\* the call runs on one thread that nothing suspends: a step that can be
\* taken is taken
SpecWalk == WalkInit /\ [][WalkNext]_vars /\ WF_vars(WalkNext)

(***************************************************************************)
(* Step reconstruction over LLM calls whose messages vary:                 *)
(* get_agent_steps() with and without deduplication on a trace of one or   *)
(* two root-level LLM calls, a tool or a retrieval between them.           *)
(***************************************************************************)
RECURSIVE MessageLists(_, _)
\* the lists of at most n messages drawn from alphabet
MessageLists(alphabet, n) ==
    IF n = 0 THEN {<<>>}
    ELSE MessageLists(alphabet, n - 1)
         \cup {Append(l, m) : l \in {k \in MessageLists(alphabet, n - 1) : Len(k) = n - 1},
                               m \in alphabet}

\* the first call: any messages, one of them declaring tool call c1, and a
\* response, a requested tool call or neither
FirstLLMSpans ==
    {LLMSpan("s1", None, msgs, e.response, e.tool_calls) :
         msgs \in MessageLists({SystemMessage("sys"), UserMessage("hi"),
                                AssistantMessage("", <<ToolCall("c1", "search")>>),
                                ToolMessage("out", "c1")}, MaxMessages),
         e \in {[response |-> "", tool_calls |-> <<>>],
                [response |-> "answer", tool_calls |-> <<>>],
                [response |-> "", tool_calls |-> <<ToolCall("c2", "search")>>]}}

\* a later call, which sends again what the first call may have sent
LaterLLMSpans ==
    {LLMSpan("s3", None, msgs, "answer", <<>>) :
         msgs \in MessageLists({UserMessage("hi"), ToolMessage("out", "c1")},
                               MaxMessages - 1)}

MessageSpanLists ==
    {<<first>> \o mid \o last :
         first \in FirstLLMSpans,
         mid \in {<<>>, <<ToolSpan("s2", None, "search")>>, <<RetrieverSpan("s2", None)>>},
         last \in {<<>>} \cup {<<l>> : l \in LaterLLMSpans}}

MessagesInit ==
    /\ t_spans \in MessageSpanLists
    /\ t_roots = <<>>
    /\ t_left = {}
    /\ t_passes = <<>>
    /\ DispatchIdle /\ RunnerIdle /\ ResultIdle /\ AggregationIdle
    /\ DetectionIdle /\ JudgeIdle /\ LaterIdle

\* trace.get_agent_steps(), deduplicate_messages left at its default False
ReconstructPlain ==
    /\ t_plain = Nothing
    /\ t_plain' = Some(get_agent_steps(t_spans, None, FALSE))
    /\ UNCHANGED <<t_llm_calls, t_agent_trace, reconstructionVars, walkVars>>
    /\ UNCHANGED <<dispatchVars, runnerVars, resultVars, aggregationVars,
                   detectionVars, judgeVars>>

MessagesNext == Reconstruct \/ ReconstructPlain

SpecMessages == MessagesInit /\ [][MessagesNext]_vars

(***************************************************************************)
(* Access to one trace: create_agent_trace for one of its agents and       *)
(* get_llm_calls, each called at most once.                                *)
(***************************************************************************)
\* trace.create_agent_trace(agent_span_id) for an AgentSpan of the trace
CreateAgentTrace ==
    /\ t_agent_trace = Nothing
    /\ \E k \in {n \in 1..Len(t_spans) : t_spans[n].kind = "agent"} :
           t_agent_trace' = Some(create_agent_trace(t_spans, t_spans[k].span_id))
    /\ UNCHANGED <<t_plain, t_llm_calls, reconstructionVars, walkVars>>
    /\ UNCHANGED <<dispatchVars, runnerVars, resultVars, aggregationVars,
                   detectionVars, judgeVars>>

\* trace.get_llm_calls(include_nested=..., deduplicate_messages=...)
GetLLMCalls ==
    /\ t_llm_calls = Nothing
    /\ \E include_nested \in BOOLEAN, deduplicate_messages \in BOOLEAN :
           \E got \in {get_llm_calls(t_spans, include_nested, deduplicate_messages)} :
               /\ t_llm_calls' = Some([include_nested |-> include_nested,
                                       deduplicate_messages |-> deduplicate_messages,
                                       returned |-> got.returned])
               /\ t_spans' = got.spans
    /\ UNCHANGED <<t_roots, t_left, t_passes, t_plain, t_agent_trace, walkVars>>
    /\ UNCHANGED <<dispatchVars, runnerVars, resultVars, aggregationVars,
                   detectionVars, judgeVars>>

AccessNext == CreateAgentTrace \/ GetLLMCalls

SpecAccess == ReconstructionInit /\ [][AccessNext]_vars

(***************************************************************************)
(* Properties of one dispatch (SpecDispatch).                              *)
(***************************************************************************)
SpansOfKind(spans, kind) == Cardinality({i \in 1..Len(spans) : spans[i].kind = kind})

\* the number of evaluate() calls the level of the hint asks for
ExpectedCalls(hint, spans) ==
    CASE hint = "Trace" -> 1
      [] hint = "AgentTrace" -> IF SpansOfKind(spans, "agent") = 0 THEN 1
                                ELSE SpansOfKind(spans, "agent")
      [] hint = "LLMSpan" -> SpansOfKind(spans, "llm")

\* C1: one dispatch calls evaluate exactly once at trace level, once per
\* AgentSpan (once when the trace has none) at agent level, and once per
\* LLMSpan at llm level, whatever messages the LLMSpans share.
CallCountPerLevel ==
    (d_pc = "done" /\ d_evaluator.hint \in {"Trace", "AgentTrace", "LLMSpan"})
        => Len(d_out.calls) = ExpectedCalls(d_evaluator.hint, d_trace.spans)

\* C2: for a trace without AgentSpans, an agent-level dispatch makes exactly
\* one call, and the AgentTrace it passes has agent_id = trace_id and the
\* deduplicated root-level steps of the whole trace.
FallbackAgentTrace ==
    (d_pc = "done" /\ d_evaluator.hint = "AgentTrace"
                   /\ SpansOfKind(d_trace.spans, "agent") = 0)
        => /\ Len(d_out.calls) = 1
           /\ d_out.calls[1][1].agent_id = d_trace.trace_id
           /\ d_out.calls[1][1].steps =
                  _reconstruct_steps(d_trace.spans,
                                     _get_root_level_spans(d_trace.spans, None), TRUE)

\* a fallback dispatch on a trace whose two LLM calls repeat their messages, so
\* that deduplication changes the steps
FallbackOnRepeatedMessages ==
    /\ d_pc = "done" /\ d_evaluator.hint = "AgentTrace"
    /\ SpansOfKind(d_trace.spans, "agent") = 0
    /\ SpansOfKind(d_trace.spans, "llm") = 2
    /\ Len(d_out.calls) = 1
    /\ d_out.calls[1][1].agent_id = "t1"
    /\ d_out.calls[1][1].steps #
           _reconstruct_steps(d_trace.spans,
                              _get_root_level_spans(d_trace.spans, None), FALSE)

(***************************************************************************)
(* Properties of one run (Spec).                                           *)
(***************************************************************************)
\* the records of the run result for an evaluator and a trace
RecordsOf(name, trace_id) ==
    SelectSeq(r_scores[name].individual_scores, LAMBDA s : s.trace_id = trace_id)

\* the evaluate() calls the run made for an evaluator and a trace
CallsOf(name, trace_id) ==
    SelectSeq(r_log, LAMBDA c : c.evaluator = name /\ c.trace_id = trace_id)

SuppliedNamed(name) ==
    r_supplied[CHOOSE j \in 1..Len(r_supplied) : r_supplied[j].name = name]

TraceWithId(trace_id) ==
    r_traces[CHOOSE t \in 1..Len(r_traces) : r_traces[t].trace_id = trace_id]

\* C3: an evaluator that does not support the runner's mode is never invoked:
\* it is out of the active set from construction on, no body is called before
\* construction, and every call is a call of an active evaluator.
OnlySupportedModesInvoked ==
    /\ r_pc = "new" => r_log = <<>>
    /\ \A k \in 1..Len(r_evaluators) : r_eval_mode \in r_evaluators[k]._supported_eval_modes
    /\ \A k \in 1..Len(r_log) :
           /\ r_eval_mode \in SuppliedNamed(r_log[k].evaluator)._supported_eval_modes
           /\ \E j \in 1..Len(r_evaluators) : r_evaluators[j].name = r_log[k].evaluator

\* a finished monitor run that was handed an experiment-only evaluator and
\* called another evaluator
MonitorRunWithExperimentOnlyEvaluator ==
    /\ r_pc = "done" /\ r_eval_mode = "monitor"
    /\ \E j \in 1..Len(r_supplied) : r_supplied[j]._supported_eval_modes = {"experiment"}
    /\ Len(r_evaluators) < Len(r_supplied)
    /\ r_log # <<>>

\* C4: a finished run holds, for a trace-level evaluator, exactly one record
\* per trace: score-less and carrying the exception text where the body raised,
\* scored where it returned a score; and no trace is lost to the run.
OneRecordPerTrace ==
    r_pc = "done" =>
        \A k \in 1..Len(r_evaluators), t \in 1..Len(r_traces) :
            r_evaluators[k].hint = "Trace" =>
                LET records == RecordsOf(r_evaluators[k].name, r_traces[t].trace_id)
                    calls == CallsOf(r_evaluators[k].name, r_traces[t].trace_id)
                IN  /\ Len(calls) = 1
                    /\ Len(records) = 1
                    /\ calls[1].body.op = "raise" =>
                           /\ records[1].score = Nothing
                           /\ records[1].skip_reason = calls[1].body.text
                    /\ calls[1].body.op = "score" =>
                           records[1].score = Some(calls[1].body.score)

\* C5: when the body of an agent-level or llm-level evaluator raises on one
\* item of a trace, every item of that trace is still evaluated, and every
\* item the body scored has its scored record in the run result.
SiblingItemsEvaluated ==
    r_pc = "done" =>
        \A k \in 1..Len(r_log) :
            (/\ r_log[k].body.op = "raise"
             /\ SuppliedNamed(r_log[k].evaluator).hint \in {"AgentTrace", "LLMSpan"}) =>
                LET name == r_log[k].evaluator
                    trace == TraceWithId(r_log[k].trace_id)
                    calls == CallsOf(name, trace.trace_id)
                    records == RecordsOf(name, trace.trace_id)
                IN  /\ Len(calls) = ItemCount(SuppliedNamed(name), trace)
                    /\ \A c \in 1..Len(calls) :
                           calls[c].body.op = "score" =>
                               \E n \in 1..Len(records) :
                                   records[n].score = Some(calls[c].body.score)

\* C6: a finished run holds, for every call whose body returned
\* EvalResult.skip(reason), a score-less record of that evaluator and trace
\* whose skip_reason is the evaluator's reason; no record of a score of 0
\* stands for it.
SkipRecordedWithReason ==
    r_pc = "done" =>
        \A k \in 1..Len(r_log) :
            r_log[k].body.op = "skip" =>
                LET records == RecordsOf(r_log[k].evaluator, r_log[k].trace_id)
                IN  /\ \E n \in 1..Len(records) :
                           /\ records[n].score = Nothing
                           /\ records[n].skip_reason = r_log[k].body.text
                    /\ \A n \in 1..Len(records) : records[n].score # Some(0)

(***************************************************************************)
(* Properties of one summary (SpecAggregation).                            *)
(***************************************************************************)
\* the score values of the records that carry a score
ScoredValues(all_scores) ==
    LET scored == SelectSeq(all_scores, LAMBDA s : s.score # Nothing)
    IN  [k \in 1..Len(scored) |-> scored[k].score[1]]

RECURSIVE SumOf(_)
SumOf(values) == IF values = <<>> THEN 0 ELSE Head(values) + SumOf(Tail(values))

ScoreBoundsAtConstruction ==
    e_made.by = "__init__" =>
        /\ e_made.out.exc = None =>
               /\ e_made.score.type = "number"
               /\ 0 <= e_made.score.value /\ e_made.score.value <= 10
               /\ e_made.out.value[1]._score = Some(e_made.score.value)
        /\ (e_made.score.type = "number"
               /\ (e_made.score.value < 0 \/ e_made.score.value > 10)) =>
               e_made.out.exc = "ValueError"
        /\ (e_pc = "read" /\ e_read.attribute = "score") =>
               /\ e_read.out.exc = None
               /\ e_read.out.value[1] \in 0..10

\* EvalResult(score=1.1) was tried and failed with ValueError
ScoreAboveRangeRejected ==
    /\ e_pc = "made" /\ e_made.by = "__init__"
    /\ e_made.score = Number(11)
    /\ e_made.out.exc = "ValueError"

\* C10 as it is in the code: a result built by EvalResult(score) is scored and
\* one built by EvalResult.skip(reason) is skipped, never both; reading score
\* or passed fails with AttributeError exactly on a skipped result; reading
\* skip_reason never fails: it gives None on a scored result and the reason on
\* a skipped one.
ScoredOrSkipped ==
    e_pc = "read" =>
        LET scored == e_made.by = "__init__"
        IN  /\ EvalResult_is_skipped(e_made.out.value[1]) <=> ~scored
            /\ e_read.attribute \in {"score", "passed"} =>
                   e_read.out.exc = (IF scored THEN None ELSE "AttributeError")
            /\ e_read.attribute = "skip_reason" =>
                   /\ e_read.out.exc = None
                   /\ (e_read.out.value[1] = None) <=> scored
            /\ e_read.attribute = "is_skipped" => e_read.out = Returned(~scored)

\* skip_reason was read on a scored result, and the read gave None
SkipReasonReadOnScored ==
    /\ e_pc = "read" /\ e_made.by = "__init__"
    /\ e_read.attribute = "skip_reason"
    /\ e_read.out = Returned(None)

\* C10 as the claim states it: reading the field of the other state always
\* fails, score and passed on a skipped result, skip_reason on a scored one.
OtherStateFieldAlwaysFails ==
    e_pc = "read" =>
        /\ (e_made.by = "skip" /\ e_read.attribute \in {"score", "passed"}) =>
               e_read.out.exc # None
        /\ (e_made.by = "__init__" /\ e_read.attribute = "skip_reason") =>
               e_read.out.exc # None

(***************************************************************************)
(* Properties of one evaluator's construction (SpecDetection).             *)
(***************************************************************************)
\* the positions of the parameters that count: not self and, when Param
\* defaults are to be skipped, not defaulted to a Param
CountedPositions(target, skip) ==
    {i \in 1..Len(target) : /\ target[i].name # "self"
                             /\ (skip => target[i].default # "Param")}

RequiredPositions(target, skip) ==
    {i \in CountedPositions(target, skip) : target[i].default = "empty"}

\* C11: the modes detected at construction are {experiment, monitor} for 0 or
\* 1 counted parameters, {experiment} for 2 or more counted parameters of
\* which at least 2 have no default, and {experiment, monitor} otherwise.
ModesFromSignature ==
    s_pc \in {"constructed", "read"} =>
        s_instance._supported_eval_modes =
            (IF Cardinality(CountedPositions(s_target, s_skip)) <= 1
             THEN {"experiment", "monitor"}
             ELSE IF Cardinality(RequiredPositions(s_target, s_skip)) >= 2
             THEN {"experiment"}
             ELSE {"experiment", "monitor"})

\* an evaluator with two counted parameters, the second one defaulted, was
\* built and supports both modes
SecondParameterOptional ==
    /\ s_pc = "constructed"
    /\ Cardinality(CountedPositions(s_target, s_skip)) = 2
    /\ Cardinality(RequiredPositions(s_target, s_skip)) = 1
    /\ s_instance._supported_eval_modes = {"experiment", "monitor"}

\* the first parameter that is not self, when there is one
HasFirstParameter(target) == \E i \in 1..Len(target) : target[i].name # "self"

FirstParameter(target) ==
    target[CHOOSE i \in 1..Len(target) :
               /\ target[i].name # "self"
               /\ \A j \in 1..(i - 1) : target[j].name = "self"]

\* C12: no evaluator instance exists whose designated callable has a missing
\* or unsupported type hint on its first parameter: construction fails for it.
BadHintFailsAtConstruction ==
    s_pc \in {"constructed", "read"} =>
        /\ HasFirstParameter(s_target)
        /\ FirstParameter(s_target).hint \in {"Trace", "AgentTrace", "LLMSpan"}

ArityDispatch ==
    d_pc = "done" =>
        \A k \in 1..Len(d_out.calls) :
            /\ d_evaluator.param_count = 1 => Len(d_out.calls[k]) = 1
            /\ d_evaluator.param_count = 2 =>
                   /\ Len(d_out.calls[k]) = 2
                   /\ d_out.calls[k][2] = d_task

\* a one-parameter evaluator was dispatched with a task and called without it
OneParameterCalledWithoutTask ==
    /\ d_pc = "done"
    /\ d_evaluator.param_count = 1 /\ d_task = "task1"
    /\ Len(d_out.calls) >= 1
    /\ \A k \in 1..Len(d_out.calls) : Len(d_out.calls[k]) = 1

(***************************************************************************)
(* Further properties of one run (Spec).                                   *)
(***************************************************************************)
SupportedBySome(eval_mode, evaluators) ==
    \E j \in 1..Len(evaluators) : eval_mode \in evaluators[j]._supported_eval_modes

\* C15: construction of a runner fails exactly when no supplied evaluator
\* supports the runner's mode (an empty list included), and every runner that
\* exists has a non-empty active set.
EmptyActiveSetRejected ==
    /\ r_pc = "rejected" => ~SupportedBySome(r_eval_mode, r_supplied)
    /\ r_pc \in {"constructed", "running", "done", "raised"} =>
           /\ SupportedBySome(r_eval_mode, r_supplied)
           /\ r_evaluators # <<>>

\* a runner handed evaluators, none of which supports its mode, was rejected
AllFilteredOutRejected ==
    /\ r_pc = "rejected"
    /\ r_supplied # <<>>
    /\ ~SupportedBySome(r_eval_mode, r_supplied)

\* C20: the result of a finished run is successful exactly when it recorded
\* no error and evaluated at least one trace; every trace is either counted as
\* evaluated or recorded as an error; a run over no traces is not successful.
SuccessIffNoErrorAndSomeTrace ==
    r_pc = "done" =>
        /\ success(r_errors, r_traces_evaluated)
               <=> (r_errors = <<>> /\ r_traces_evaluated >= 1)
        /\ r_traces_evaluated + Len(r_errors) = Len(r_traces)
        /\ r_traces = <<>> => ~success(r_errors, r_traces_evaluated)

\* a run over no traces finished without error and is not successful
ZeroTraceRunNotSuccessful ==
    /\ r_pc = "done"
    /\ r_traces = <<>> /\ r_errors = <<>>
    /\ ~success(r_errors, r_traces_evaluated)

(***************************************************************************)
(* Further properties of one summary (SpecAggregation).                    *)
(***************************************************************************)
\* the records in the order the permutation f of their positions gives
Reordered(all_scores, f) == [i \in 1..Len(all_scores) |-> all_scores[f[i]]]

ParentIds(spans, ids) ==
    {spans[k].parent_span_id : k \in {n \in 1..Len(spans) : spans[n].span_id \in ids}}
        \ {None}

RECURSIVE ChainUp(_, _, _)
\* the ids met on the parent chains that start at ids, k steps up
ChainUp(spans, ids, k) ==
    IF k = 0 THEN ids ELSE ChainUp(spans, ids \cup ParentIds(spans, ids), k - 1)

\* the ids met walking up from the parent of the span
AncestorIds(spans, span) ==
    IF span.parent_span_id = None THEN {}
    ELSE ChainUp(spans, {span.parent_span_id}, Len(spans))

ToolIds(spans) == {spans[k].span_id : k \in {n \in 1..Len(spans) : spans[n].kind = "tool"}}

\* C18: the spans a pass selects as root-level are, in trace order, exactly
\* the spans whose parent chain, walked upward to any depth, meets no
\* ToolSpan; a ToolSpan without ToolSpan ancestor is among them.
RootLevelIffNoToolAncestor ==
    t_passes # <<>> =>
        t_roots = SelectSeq(t_spans,
                            LAMBDA sp : AncestorIds(t_spans, sp) \cap ToolIds(t_spans) = {})

\* a pass was made over a chain tool s1 <- agent s2 <- LLM call s3: the tool is
\* root-level, the agent and the LLM call two levels below it are not
ToolGrandparentExcluded ==
    /\ t_passes # <<>>
    /\ Len(t_spans) = 3
    /\ t_spans[1].kind = "tool" /\ t_spans[1].parent_span_id = None
    /\ t_spans[2].kind = "agent" /\ t_spans[2].parent_span_id = "s1"
    /\ t_spans[3].kind = "llm" /\ t_spans[3].parent_span_id = "s2"
    /\ t_roots = <<t_spans[1]>>

(***************************************************************************)
(* Properties of one LLM-judge evaluation (SpecJudge).                     *)
(***************************************************************************)
Invalid(response) == response.kind = "text" \/ response.score < 0 \/ response.score > 10

Valid(response) == response.kind = "json" /\ ~Invalid(response)

WhyInvalid(response) ==
    IF response.kind = "text" THEN "Invalid JSON"
    ELSE IF response.score < 0 THEN "score: Input should be greater than or equal to 0"
    ELSE "score: Input should be less than or equal to 1"

\* C19: one evaluation makes at most max_retries + 1 calls; every call but
\* the last was answered by an invalid response, so nothing is called after a
\* valid one, which is what is returned; the first call sends the prompt and
\* every later one the prompt plus the failure of the response just before
\* it; when every response was invalid and the evaluation is over, exactly
\* max_retries + 1 calls were made and the result is score 0.0, passed false.
BoundedRetryLoop ==
    /\ Len(j_calls) <= j_max_retries + 1
    /\ \A k \in 1..Len(j_calls) :
          /\ k < Len(j_calls) => Invalid(j_calls[k].response)
          /\ k = 1 => j_calls[k].content = j_prompt
          /\ k > 1 => j_calls[k].content =
                          j_prompt \o <<[previous_response_was_invalid |->
                                            WhyInvalid(j_calls[k - 1].response)]>>
    /\ (j_pc = "done" /\ Valid(j_calls[Len(j_calls)].response)) =>
          /\ j_out.exc = None
          /\ j_out.value[1]._score = Some(j_calls[Len(j_calls)].response.score)
    /\ (j_pc = "done" /\ \A k \in 1..Len(j_calls) : Invalid(j_calls[k].response)) =>
          /\ Len(j_calls) = j_max_retries + 1
          /\ j_out.exc = None
          /\ j_out.value[1]._score = Some(0)
          /\ j_out.value[1]._passed = Some(FALSE)

\* an evaluation with max_retries = 2 ended after three invalid responses of
\* two different kinds
RetriesExhaustedAfterThreeCalls ==
    /\ j_pc = "done"
    /\ j_max_retries = 2
    /\ Len(j_calls) = 3
    /\ j_calls[1].response = GarbageResponse
    /\ j_calls[2].response = JsonResponse(12)
    /\ j_calls[3].response = GarbageResponse
    /\ j_out = retries_exhausted

(***************************************************************************)
(* Properties of root-level selection step by step (SpecWalk).             *)
(***************************************************************************)
\* C21: on every span list, parent cycles included, root-level selection
\* (descendant collection first, when an agent is given) comes to its end;
\* descendant collection never holds the same span id twice; and at the end
\* the selected spans are the candidates whose parent chain, looping or not,
\* meets no ToolSpan.
SelectionTerminatesOnCycles ==
    /\ <>(w_pc = "done")
    /\ [](\A i, j \in 1..Len(w_candidates) :
              i # j => w_candidates[i].span_id # w_candidates[j].span_id)
    /\ [](w_pc = "done" =>
              w_roots = SelectSeq(w_candidates,
                                  LAMBDA sp : AncestorIds(w_spans, sp) \cap ToolIds(w_spans) = {}))

\* selection restricted to agent s1 ended on two agents that are each
\* other's parent: each was collected once and both are root-level
CycleOfTwoAgentsSelected ==
    /\ w_pc = "done"
    /\ w_agent_span_id = "s1"
    /\ w_spans = <<AgentSpan("s1", "s2", "agent"), AgentSpan("s2", "s1", "agent")>>
    /\ w_candidates = <<w_spans[2], w_spans[1]>>
    /\ w_roots = w_candidates

PositionIn(spans, sp) == CHOOSE k \in 1..Len(spans) : spans[k].span_id = sp.span_id

\* C23: the spans selected under one agent stand in the order they have in
\* the flat span list of the trace.
AgentRootsKeepTraceOrder ==
    (w_pc = "done" /\ w_agent_span_id # None) =>
        \A i, j \in 1..Len(w_roots) :
            i < j => PositionIn(w_spans, w_roots[i]) < PositionIn(w_spans, w_roots[j])

(***************************************************************************)
(* Properties of a run as a whole (Spec).                                  *)
(***************************************************************************)
\* C22: once the runner is constructed, _evaluate_traces returns a
\* RunResult: no exception leaves it.
RunAlwaysReturns == r_pc # "raised"

(***************************************************************************)
(* Properties of the results of one dispatch (SpecDispatch).               *)
(***************************************************************************)
\* the id of the AgentTrace or LLMSpan a call was made for
ItemIdOf(call) == IF call[1].kind = "agent_trace" THEN call[1].agent_id ELSE call[1].span_id

\* C24: after an agent-level or llm-level dispatch that returned, the i-th
\* result carries the id of the i-th item evaluate was called for.
SpanIdentityPerItem ==
    (d_pc = "done" /\ d_out.exc = None /\ d_evaluator.hint \in {"AgentTrace", "LLMSpan"}) =>
        \A i \in 1..Len(d_out.results) :
            d_out.results[i].details = Some(ItemIdOf(d_out.calls[i]))

(***************************************************************************)
(* Properties of the steps of LLM calls (SpecMessages).                    *)
(***************************************************************************)
\* the names the AssistantMessages of the span declare for a tool_call_id
DeclaredNames(span, id) ==
    UNION {{span.messages[m].tool_calls[c].name :
                c \in {k \in 1..Len(span.messages[m].tool_calls) :
                          span.messages[m].tool_calls[k].id = id}} :
           m \in {k \in 1..Len(span.messages) : span.messages[k].role = "assistant"}}

\* the step a UserMessage or ToolMessage of the span stands for
StepOfMessage(span, msg) ==
    IF msg.role = "user" THEN UserStep(msg.content)
    ELSE ToolExecutionStep(IF DeclaredNames(span, msg.tool_call_id) = {}
                           THEN msg.tool_call_id
                           ELSE CHOOSE name \in DeclaredNames(span, msg.tool_call_id) : TRUE,
                           msg.tool_call_id, msg.content, <<>>)

\* the LLMStep that closes the steps of a span, if any
ClosingStep(span) ==
    IF span.response # "" \/ span.tool_calls # <<>>
    THEN <<LLMStep(span.response, span.tool_calls, span.span_id)>>
    ELSE <<>>

\* the steps one span stands for when the messages `kept` are looked at
StepsOfSpan(span, kept) ==
    LET stepful == SelectSeq(kept, LAMBDA msg : msg.role \in {"user", "tool"})
    IN  [k \in 1..Len(stepful) |-> StepOfMessage(span, stepful[k])] \o ClosingStep(span)

\* the step a root-level ToolSpan or RetrieverSpan without children stands for
StepOfLeaf(span) ==
    IF span.kind = "tool" THEN ToolExecutionStep(span.name, None, "", <<>>)
    ELSE ToolExecutionStep("retrieval", None, "", <<>>)

RECURSIVE PlainSteps(_, _)
\* span by span from the i-th on: every message looked at
PlainSteps(spans, i) ==
    IF i > Len(spans) THEN <<>>
    ELSE (IF spans[i].kind = "llm" THEN StepsOfSpan(spans[i], spans[i].messages)
          ELSE <<StepOfLeaf(spans[i])>>) \o PlainSteps(spans, i + 1)

\* C25: without deduplication an LLMSpan expands to one UserStep per
\* UserMessage and one ToolExecutionStep per ToolMessage, in message order,
\* named by the declaration of its tool_call_id in the span or by the raw
\* id, nothing for System and Assistant messages, then one LLMStep exactly
\* when the span has a response or tool calls.
PlainExpansion ==
    t_plain # Nothing => t_plain[1] = PlainSteps(t_spans, 1)

\* a call was expanded whose tool result is resolved by a declaration that
\* follows it, and which closes with an LLMStep carrying a tool call
ToolResultResolvedAndClosed ==
    /\ t_plain # Nothing
    /\ Len(t_spans) = 1
    /\ t_spans[1].messages = <<SystemMessage("sys"), ToolMessage("out", "c1"),
                               AssistantMessage("", <<ToolCall("c1", "search")>>)>>
    /\ t_plain[1] = <<ToolExecutionStep("search", "c1", "out", <<>>),
                      LLMStep("", <<ToolCall("c2", "search")>>, "s1")>>

\* whether the m-th message of the i-th span repeats the (role, content) of a
\* message before it in the pass
SeenEarlier(spans, i, m) ==
    \E j \in 1..i : \E n \in 1..Len(spans[j].messages) :
        /\ (j < i \/ n < m)
        /\ spans[j].kind = "llm"
        /\ spans[j].messages[n].role = spans[i].messages[m].role
        /\ spans[j].messages[n].content = spans[i].messages[m].content

\* the messages of the i-th span that are first occurrences, in order
FirstOccurrences(spans, i) ==
    LET numbered == [m \in 1..Len(spans[i].messages) |->
                        [m |-> m, msg |-> spans[i].messages[m]]]
        firsts == SelectSeq(numbered, LAMBDA e : ~SeenEarlier(spans, i, e.m))
    IN  [k \in 1..Len(firsts) |-> firsts[k].msg]

RECURSIVE DeduplicatedSteps(_, _)
\* span by span from the i-th on: first occurrences only
DeduplicatedSteps(spans, i) ==
    IF i > Len(spans) THEN <<>>
    ELSE (IF spans[i].kind = "llm" THEN StepsOfSpan(spans[i], FirstOccurrences(spans, i))
          ELSE <<StepOfLeaf(spans[i])>>) \o DeduplicatedSteps(spans, i + 1)

\* C26: with deduplication, in one pass a message whose (role, content) was
\* met earlier in the pass, in the same or an earlier LLM span, gives no
\* step, and every first occurrence gives the step it stands for.
DuplicatesGiveNoStep ==
    \A p \in 1..Len(t_passes) : t_passes[p] = DeduplicatedSteps(t_spans, 1)

\* a pass over two calls that both send user message "hi", the first of them
\* twice: one UserStep in all
RepeatedUserMessageOnce ==
    /\ Len(t_passes) = 1
    /\ Len(t_spans) = 2
    /\ t_spans[1].messages = <<UserMessage("hi"), UserMessage("hi")>>
    /\ t_spans[1].response = "answer"
    /\ t_spans[2].kind = "llm" /\ t_spans[2].messages = <<UserMessage("hi")>>
    /\ t_passes[1] = <<UserStep("hi"), LLMStep("answer", <<>>, "s1"),
                       LLMStep("answer", <<>>, "s3")>>

RECURSIVE IsSubsequence(_, _)
IsSubsequence(a, b) ==
    IF a = <<>> THEN TRUE
    ELSE IF b = <<>> THEN FALSE
    ELSE IF a[1] = b[1] THEN IsSubsequence(Tail(a), Tail(b))
    ELSE IsSubsequence(a, Tail(b))

\* the steps that do not stand for a message: LLMSteps and the steps of
\* ToolSpans and RetrieverSpans (these carry no tool_call_id)
NotFromMessage(steps) ==
    SelectSeq(steps, LAMBDA st : st.type = "llm" \/ (st.type = "tool" /\ st.tool_call_id = None))

\* C29: the steps reconstructed with deduplication are a subsequence of the
\* steps reconstructed without it, with the same LLMSteps and the same steps
\* of ToolSpans and RetrieverSpans in the same order.
DeduplicationOnlyDropsMessageSteps ==
    (t_plain # Nothing /\ t_passes # <<>>) =>
        /\ IsSubsequence(t_passes[1], t_plain[1])
        /\ NotFromMessage(t_passes[1]) = NotFromMessage(t_plain[1])

\* both reconstructions were made of a trace with a ToolSpan between two
\* calls; deduplication dropped steps and kept the tool's and both LLMSteps
DeduplicatedAroundToolSpan ==
    /\ t_plain # Nothing /\ t_passes # <<>>
    /\ Len(t_spans) = 3 /\ t_spans[2].kind = "tool"
    /\ Len(t_passes[1]) < Len(t_plain[1])
    /\ Len(NotFromMessage(t_passes[1])) = 3

(***************************************************************************)
(* Properties of access to a trace (SpecAccess).                           *)
(***************************************************************************)
\* C27: get_llm_calls(include_nested=False), messages left as they are,
\* returns exactly the LLMSpans among the spans root-level selection over
\* the whole trace returns, in the same order.
RootLevelLLMCalls ==
    (/\ t_llm_calls # Nothing
     /\ ~t_llm_calls[1].include_nested
     /\ ~t_llm_calls[1].deduplicate_messages) =>
        t_llm_calls[1].returned =
            SelectSeq(_get_root_level_spans(t_spans, None), LAMBDA sp : sp.kind = "llm")

SubAgentTraceHasSteps ==
    t_agent_trace # Nothing =>
        \A k \in 1..Len(t_spans) :
            (/\ t_spans[k].kind = "agent"
             /\ t_spans[k].span_id = t_agent_trace[1].agent_id
             /\ AncestorIds(t_spans, t_spans[k]) \cap ToolIds(t_spans) # {}
             /\ \E c \in 1..Len(t_spans) :
                    /\ t_spans[c].kind = "llm"
                    /\ t_spans[c].parent_span_id = t_spans[k].span_id
                    /\ t_spans[c].response # "") =>
                t_agent_trace[1].steps # <<>>

====
